---- MODULE Spec2Model ----
(***************************************************************************)
(* Verification model of the syntaks Tak engine: the position              *)
(* representation (per-square stacks, bit-sets, hands, zobrist keys), the  *)
(* legality test, move application and the TPS text conversion.            *)
(*                                                                         *)
(* Bit-sets (Bitboard) are modelled as sets of squares; a zobrist key is   *)
(* modelled as the set of key tokens XOR-ed into it (XOR of independent    *)
(* random words = symmetric difference of the token sets).                 *)
(***************************************************************************)
EXTENDS Integers, Sequences, FiniteSets, TLC

\* pos: the position of the game being played; inp, out: the argument and
\* the result of a function that is applied on its own
VARIABLES pos, inp, out

vars == <<pos, inp, out>>

(***************************************************************************)
(* Bounds of the exploration.                                              *)
(***************************************************************************)
\* moves are applied while pos.ply < MaxPly
MaxPly == 6
\* moves are played on the files >= 6 - ActiveFiles of rank 1 (and on f2)
ActiveFiles == 3

(***************************************************************************)
(* core.rs: Player, PieceType, Direction, Square                           *)
(***************************************************************************)
P1 == 0
P2 == 1
Players == {P1, P2}

Flat == 0
Wall == 1
Capstone == 2
PieceTypes == {Flat, Wall, Capstone}

\* Option::None of Option<PieceType>, Option<Player>, Option<Square>
None == -1

Up == 0
Down == 1
Left == 2
Right == 3
Directions == {Up, Down, Left, Right}

SquareCount == 36
Squares == 0 .. (SquareCount - 1)

flip(player) == IF player = P1 THEN P2 ELSE P1

is_blocker(pt) == pt > 0

is_road(pt) == pt % 2 = 0

offset(dir) == CASE dir = Up -> 6 [] dir = Down -> -6 [] dir = Left -> -1 [] OTHER -> 1

rank(sq) == sq \div 6

file(sq) == sq % 6

from_file_rank(f, r) == IF f >= 6 \/ r >= 6 THEN None ELSE r * 6 + f

\* Square::shift: bounds-checks the index only (no file wrap check)
shift(sq, dir) ==
    LET shifted == sq + offset(dir)
    IN  IF shifted >= 0 /\ shifted < SquareCount THEN shifted ELSE None

shift_checked(sq, dir) ==
    IF dir = Left /\ file(sq) = 0 THEN None
    ELSE IF dir = Right /\ file(sq) = 5 THEN None
    ELSE shift(sq, dir)

(***************************************************************************)
(* Integer bit operations                                                  *)
(***************************************************************************)
Pow2(n) == 2 ^ n

Shr(x, n) == x \div Pow2(n)

LowBits(x, n) == x % Pow2(n)

Bit(x, i) == (x \div Pow2(i)) % 2

\* true of every value; testing it makes TLC compute the value of a loop's
\* state before the next turn of the loop, which keeps its evaluation flat
evaluated(x) == x = x

RECURSIVE trailing_zeros(_)
trailing_zeros(x) == IF x % 2 = 1 THEN 0 ELSE 1 + trailing_zeros(x \div 2)

RECURSIVE count_ones(_)
count_ones(x) == IF x = 0 THEN 0 ELSE (x % 2) + count_ones(x \div 2)

Toggle(S, x) == IF x \in S THEN S \ {x} ELSE S \cup {x}

(***************************************************************************)
(* takmove.rs: the 14-bit move value                                       *)
(***************************************************************************)
SQUARE_BITS == 6
PATTERN_BITS == 6
FLAG_BITS == 2
SQUARE_SHIFT == 0
PATTERN_SHIFT == SQUARE_SHIFT + SQUARE_BITS
FLAG_SHIFT == PATTERN_SHIFT + PATTERN_BITS
SQUARE_MASK == Pow2(SQUARE_BITS) - 1
PATTERN_MASK == Pow2(PATTERN_BITS) - 1
FLAG_MASK == Pow2(FLAG_BITS) - 1

\* x >> SHIFT is x \div 2^SHIFT, x & MASK is x % (MASK + 1)
SQUARE_UNIT == Pow2(SQUARE_SHIFT)
PATTERN_UNIT == Pow2(PATTERN_SHIFT)
FLAG_UNIT == Pow2(FLAG_SHIFT)

placement(pt, dst) == (pt + 1) * FLAG_UNIT + dst

spread(src, dir, pattern) == dir * FLAG_UNIT + pattern * PATTERN_UNIT + src * SQUARE_UNIT

mv_sq(mv) == (mv \div SQUARE_UNIT) % (SQUARE_MASK + 1)

mv_pattern(mv) == (mv \div PATTERN_UNIT) % (PATTERN_MASK + 1)

is_spread(mv) == mv_pattern(mv) # 0

mv_pt(mv) == ((mv \div FLAG_UNIT) % (FLAG_MASK + 1)) - 1

mv_dir(mv) == (mv \div FLAG_UNIT) % (FLAG_MASK + 1)

(***************************************************************************)
(* keys.rs: zobrist key tokens (distinct token per key word)               *)
(***************************************************************************)
top_key(pt, sq) == 1 + pt * SquareCount + sq

player_key(height, player, sq) == 1000 + (height * 2 + player) * SquareCount + sq

p2_key == 0

EmptyKeys == [stacks |-> {}, blockers |-> {}, roads |-> {}, tops |-> {}]

toggle_top_key(keys, pt, sq) ==
    [stacks   |-> Toggle(keys.stacks, top_key(pt, sq)),
     tops     |-> Toggle(keys.tops, top_key(pt, sq)),
     blockers |-> IF is_blocker(pt) THEN Toggle(keys.blockers, top_key(pt, sq))
                  ELSE keys.blockers,
     roads    |-> IF is_road(pt) THEN Toggle(keys.roads, top_key(pt, sq))
                  ELSE keys.roads]

toggle_player_key(keys, height, player, sq) ==
    [keys EXCEPT !.stacks = Toggle(@, player_key(height, player, sq))]

(***************************************************************************)
(* board.rs: Stacks                                                        *)
(***************************************************************************)
StacksDefault ==
    [players |-> [sq \in Squares |-> 0],
     heights |-> [sq \in Squares |-> 0],
     tops    |-> [sq \in Squares |-> None],
     keys    |-> EmptyKeys]

stack_is_empty(st, sq) == st.tops[sq] = None

top(st, sq) == st.tops[sq]

height(st, sq) == st.heights[sq]

\* Player::from_raw of a value that is not 0 or 1 is Option::None
player_from_raw(raw) == IF raw \in Players THEN raw ELSE None

top_player(st, sq) ==
    IF st.tops[sq] = None THEN None
    ELSE player_from_raw(Shr(st.players[sq], st.heights[sq] - 1) % 256)
\* variant: the key of the covered top is left in the keys
push_stale_top(st, sq, pt, player) ==
    LET k2 == toggle_top_key(st.keys, pt, sq)
        h  == st.heights[sq]
        k3 == toggle_player_key(k2, h, player, sq)
        pl == IF Bit(st.players[sq], h) = 1 THEN st.players[sq]
              ELSE st.players[sq] + player * Pow2(h)
    IN  [players |-> [st.players EXCEPT ![sq] = pl],
         heights |-> [st.heights EXCEPT ![sq] = h + 1],
         tops    |-> [st.tops EXCEPT ![sq] = pt],
         keys    |-> k3]

push(st, sq, pt, player) ==
    LET k1 == IF st.tops[sq] # None THEN toggle_top_key(st.keys, st.tops[sq], sq)
              ELSE st.keys
        k2 == toggle_top_key(k1, pt, sq)
        h  == st.heights[sq]
        k3 == toggle_player_key(k2, h, player, sq)
        \* players |= raw << height
        pl == IF Bit(st.players[sq], h) = 1 THEN st.players[sq]
              ELSE st.players[sq] + player * Pow2(h)
    IN  [players |-> [st.players EXCEPT ![sq] = pl],
         heights |-> [st.heights EXCEPT ![sq] = h + 1],
         tops    |-> [st.tops EXCEPT ![sq] = pt],
         keys    |-> k3]

\* the owner keys of the heights lo .. hi-1 of a bitmap, toggled in order
RECURSIVE toggle_player_keys(_, _, _, _, _)
toggle_player_keys(keys, bitmap, sq, lo, hi) ==
    IF lo >= hi THEN keys
    ELSE toggle_player_keys(toggle_player_key(keys, lo, Bit(bitmap, lo), sq),
                            bitmap, sq, lo + 1, hi)

\* debug assertions of Stacks::push / Stacks::take
push_pre(st, sq) == st.tops[sq] # Capstone

take_pre(st, sq, count) ==
    /\ count <= st.heights[sq]
    /\ count > 0
    /\ count <= 6
    /\ st.tops[sq] # None

\* variant: the owner bits of the pieces taken stay in the bitmap
take_keep_bits(st, sq, count) ==
    LET old_height == st.heights[sq]
        new_height == IF count <= old_height THEN old_height - count ELSE 0
        taken_players == LowBits(Shr(st.players[sq], new_height), count)
        old_top == st.tops[sq]
        k1 == IF old_top = None THEN st.keys ELSE toggle_top_key(st.keys, old_top, sq)
        k2 == toggle_player_keys(k1, st.players[sq], sq, new_height, old_height)
        pl == st.players[sq]
    IN  IF new_height = 0
        THEN [st |-> [players |-> [st.players EXCEPT ![sq] = pl],
                      heights |-> [st.heights EXCEPT ![sq] = new_height],
                      tops    |-> [st.tops EXCEPT ![sq] = None],
                      keys    |-> k2],
              players |-> taken_players % 256,
              top |-> old_top,
              new_top_player |-> None]
        ELSE [st |-> [players |-> [st.players EXCEPT ![sq] = pl],
                      heights |-> [st.heights EXCEPT ![sq] = new_height],
                      tops    |-> [st.tops EXCEPT ![sq] = Flat],
                      keys    |-> toggle_top_key(k2, Flat, sq)],
              players |-> taken_players % 256,
              top |-> old_top,
              new_top_player |-> Bit(pl, new_height - 1)]

\* Stacks::take for a call that meets take_pre; a call that does not
\* panics (debug assertion, unwrap of an empty top) and the value the model
\* gives it is not used
take(st, sq, count) ==
    LET old_height == st.heights[sq]
        new_height == IF count <= old_height THEN old_height - count ELSE 0
        taken_players == LowBits(Shr(st.players[sq], new_height), count)
        old_top == st.tops[sq]
        k1 == IF old_top = None THEN st.keys ELSE toggle_top_key(st.keys, old_top, sq)
        k2 == toggle_player_keys(k1, st.players[sq], sq, new_height, old_height)
        pl == LowBits(st.players[sq], new_height)
    IN  IF new_height = 0
        THEN [st |-> [players |-> [st.players EXCEPT ![sq] = pl],
                      heights |-> [st.heights EXCEPT ![sq] = new_height],
                      tops    |-> [st.tops EXCEPT ![sq] = None],
                      keys    |-> k2],
              players |-> taken_players % 256,
              top |-> old_top,
              new_top_player |-> None]
        ELSE [st |-> [players |-> [st.players EXCEPT ![sq] = pl],
                      heights |-> [st.heights EXCEPT ![sq] = new_height],
                      tops    |-> [st.tops EXCEPT ![sq] = Flat],
                      keys    |-> toggle_top_key(k2, Flat, sq)],
              players |-> taken_players % 256,
              top |-> old_top,
              new_top_player |-> Bit(pl, new_height - 1)]

RECURSIVE regen_key_from(_, _, _)
regen_key_from(st, keys, todo) ==
    IF todo = {} THEN keys
    ELSE LET sq == CHOOSE s \in todo : \A t \in todo : s <= t
             k1 == toggle_top_key(keys, st.tops[sq], sq)
             k2 == toggle_player_keys(k1, st.players[sq], sq, 0, st.heights[sq])
         IN  IF evaluated(k2) THEN regen_key_from(st, k2, todo \ {sq}) ELSE k2

regen_key(st, occ) == [st EXCEPT !.keys = regen_key_from(st, EmptyKeys, occ)]

\* StackIterator: the owners from the bottom to the top
stack_iter(st, sq) == [i \in 1 .. st.heights[sq] |-> Bit(st.players[sq], i - 1)]

(***************************************************************************)
(* hits.rs: the first blocker (or the board edge) on a ray                 *)
(***************************************************************************)
RECURSIVE scan_ray(_, _, _, _)
scan_ray(blockers, cur, dir, dist) ==
    LET nxt == shift_checked(cur, dir)
    IN  IF nxt = None THEN <<dist, cur>>
        ELSE IF nxt \in blockers THEN <<dist + 1, nxt>>
        ELSE scan_ray(blockers, nxt, dir, dist + 1)

\* (max_dist, hit_sq): the number of squares a spread may walk and the last
\* of them (the first blocker if there is one, else the edge square)
find_hit_for_dir(blockers, sq, dir) == scan_ray(blockers, sq, dir, 0)

(***************************************************************************)
(* board.rs: Position                                                      *)
(***************************************************************************)
CARRY_LIMIT == 6
KOMI == 2
INITIAL_FLATS == 30
INITIAL_CAPS == 1

startpos ==
    [stacks        |-> StacksDefault,
     players       |-> [p \in Players |-> {}],
     pieces        |-> [pt \in PieceTypes |-> {}],
     flats_in_hand |-> [p \in Players |-> INITIAL_FLATS],
     caps_in_hand  |-> [p \in Players |-> INITIAL_CAPS],
     stm           |-> P1,
     ply           |-> 0,
     player_key    |-> {}]

player_bb(p, player) == p.players[player]

piece_bb(p, pt) == p.pieces[pt]

occ(p) == p.players[P1] \cup p.players[P2]

all_blockers(p) == piece_bb(p, Wall) \cup piece_bb(p, Capstone)

key(p) == (p.player_key \ p.stacks.keys.stacks) \cup (p.stacks.keys.stacks \ p.player_key)

\* u8 subtraction as the release build performs it
SubU8(x, n) == (x + 256 - (n % 256)) % 256

\* variant: the number of squares walked is compared with the height
carry_ok_dist(p, mv) ==
    LET dist == count_ones(mv_pattern(mv))
    IN  ~(dist > height(p.stacks, mv_sq(mv)))

\* taken <= height(origin)
carry_ok(p, mv) ==
    LET taken == 6 - trailing_zeros(mv_pattern(mv))
    IN  ~(taken > height(p.stacks, mv_sq(mv)))

\* variant: any top piece of the origin may flatten a Wall
hit_ok_any_top(p, mv, hit_top) ==
    CASE hit_top = Flat -> TRUE
      [] hit_top = Wall -> ~(Bit(mv_pattern(mv), CARRY_LIMIT - 1) = 0)
      [] OTHER -> FALSE

\* the match on the top of the hit square when the walk ends on it
hit_ok(p, mv, hit_top) ==
    CASE hit_top = Flat -> TRUE
      [] hit_top = Wall ->
           /\ ~(Bit(mv_pattern(mv), CARRY_LIMIT - 1) = 0)
           /\ ~(top(p.stacks, mv_sq(mv)) # Capstone)
      [] OTHER -> FALSE

spread_is_legal(p, mv) ==
    /\ ~(p.ply < 2)
    /\ ~(top_player(p.stacks, mv_sq(mv)) = None
         \/ top_player(p.stacks, mv_sq(mv)) # p.stm)
    /\ carry_ok(p, mv)
    /\ LET dist == count_ones(mv_pattern(mv))
           hit == find_hit_for_dir(all_blockers(p), mv_sq(mv), mv_dir(mv))
           max_dist == hit[1]
           hit_sq == hit[2]
       IN  /\ ~(dist > max_dist)
           /\ (dist = max_dist /\ top(p.stacks, hit_sq) # None)
                 => hit_ok(p, mv, top(p.stacks, hit_sq))

\* variant: every placement draws on the flat pool
reserves_flat_pool(p, mv) == p.flats_in_hand[p.stm]

\* the reserve a placement draws on, as is_legal reads it
reserves(p, mv) ==
    IF mv_pt(mv) = Capstone THEN p.caps_in_hand[p.stm] ELSE p.flats_in_hand[p.stm]

opening_ok(p, mv) == ~(p.ply < 2 /\ mv_pt(mv) # Flat)

placement_is_legal(p, mv) ==
    /\ opening_ok(p, mv)
    /\ stack_is_empty(p.stacks, mv_sq(mv))
    /\ ~(reserves(p, mv) = 0)

is_legal(p, mv) ==
    IF is_spread(mv) THEN spread_is_legal(p, mv) ELSE placement_is_legal(p, mv)

\* Square::shift(dir).unwrap() in apply_move; a None would panic, the model
\* keeps the square so that the walk stays defined
shift_unwrap(sq, dir) == IF shift(sq, dir) = None THEN sq ELSE shift(sq, dir)

\* variant: every dropped piece keeps the type of the moved top
dropped_piece_type_same(idx, taken, orig_top) == orig_top

\* the type a piece is pushed with: the last one is the moved top
dropped_piece_type(idx, taken, orig_top) == IF idx = taken - 1 THEN orig_top ELSE Flat

\* the drop loop of a spread; w holds the stacks, the square being dropped
\* on, the rest of the pattern and of the owner bits, the new player sets
\* and Flat set, whether every unwrap and push assertion held, and the
\* squares walked
RECURSIVE drop_loop(_, _, _, _, _)
drop_loop(w, idx, taken, orig_top, dir) ==
    IF idx >= taken THEN w
    ELSE LET player == w.players % 2
             pt == dropped_piece_type(idx, taken, orig_top)
             st1 == push(w.st, w.sq, pt, player)
             pattern1 == w.pattern \div 2
             players1 == w.players \div 2
             ok1 == w.ok /\ push_pre(w.st, w.sq)
         IN  IF pattern1 % 2 # 0
             THEN drop_loop([st      |-> st1,
                             sq      |-> shift_unwrap(w.sq, dir),
                             pattern |-> pattern1,
                             players |-> players1,
                             bbs     |-> [w.bbs EXCEPT ![player] = @ \cup {w.sq}],
                             flats   |-> w.flats \cup {w.sq},
                             ok      |-> ok1 /\ shift(w.sq, dir) # None,
                             walk    |-> Append(w.walk, shift_unwrap(w.sq, dir))],
                            idx + 1, taken, orig_top, dir)
             ELSE drop_loop([w EXCEPT !.st = st1, !.pattern = pattern1,
                                      !.players = players1, !.ok = ok1],
                            idx + 1, taken, orig_top, dir)

\* the state of the spread branch of apply_move after its drop loop
spread_walk(p, mv) ==
    LET pattern == mv_pattern(mv)
        dir == mv_dir(mv)
        dropped == trailing_zeros(pattern)
        taken == 6 - dropped
        tk == take(p.stacks, mv_sq(mv), taken)
        first == shift_unwrap(mv_sq(mv), dir)
    IN  drop_loop([st      |-> tk.st,
                   sq      |-> first,
                   pattern |-> Shr(pattern, dropped),
                   players |-> tk.players,
                   bbs     |-> [q \in Players |->
                                  IF tk.new_top_player = q THEN {mv_sq(mv)} ELSE {}],
                   flats   |-> IF tk.new_top_player # None THEN {mv_sq(mv)} ELSE {},
                   ok      |-> shift(mv_sq(mv), dir) # None,
                   walk    |-> <<first>>],
                  0, taken, tk.top, dir)

\* the origin's bit of the mover's set is cleared when the origin empties
origin_players(p, mv, new_top_player) ==
    IF new_top_player = None
    THEN [p.players EXCEPT ![p.stm] = Toggle(@, mv_sq(mv))]
    ELSE p.players
\* variant: the origin leaves the set of its old top only when it empties
origin_pieces_stale(p, mv, orig_top, new_top_player) ==
    IF new_top_player = None
    THEN [p.pieces EXCEPT ![orig_top] = Toggle(@, mv_sq(mv))]
    ELSE p.pieces

\* the origin leaves the set of its old top unless a Flat stays on top
origin_pieces(p, mv, orig_top, new_top_player) ==
    IF orig_top # Flat \/ new_top_player = None
    THEN [p.pieces EXCEPT ![orig_top] = Toggle(@, mv_sq(mv))]
    ELSE p.pieces
\* variant: the squares the other player newly owns are not cleared
merge_players_keep(old, bbs) == [q \in Players |-> old[q] \cup bbs[q]]

\* players[q] = (players[q] | new[q]) & !new[q ^ 1]
merge_players(old, bbs) == [q \in Players |-> (old[q] \cup bbs[q]) \ bbs[flip(q)]]

\* the final square takes the type of the moved top
replace_dst_top(pieces, prev_dst_top, orig_top, sq) ==
    IF prev_dst_top # None /\ prev_dst_top # orig_top
    THEN [pieces EXCEPT ![prev_dst_top] = @ \ {sq},
                        ![orig_top] = pieces[orig_top] \cup {sq}]
    ELSE pieces

\* new_player_bbs after the drop loop: the final square goes to the mover
new_player_bbs(p, mv) ==
    LET w == spread_walk(p, mv)
    IN  [w.bbs EXCEPT ![p.stm] = @ \cup {w.sq}]

apply_spread(p, mv) ==
    LET taken == 6 - trailing_zeros(mv_pattern(mv))
        dropped(tk, w, bbs) ==
            LET orig_top == IF tk.top = None THEN Flat ELSE tk.top
                sq == w.sq
                players0 == origin_players(p, mv, tk.new_top_player)
                pieces0 == origin_pieces(p, mv, orig_top, tk.new_top_player)
                pieces1 == [pieces0 EXCEPT ![orig_top] = @ \cup {sq}]
                pieces2 == [pieces1 EXCEPT ![Flat] = @ \cup w.flats]
            IN  [p EXCEPT !.stacks = w.st,
                          !.players = merge_players(players0, bbs),
                          !.pieces = replace_dst_top(pieces2, top(p.stacks, sq), orig_top, sq)]
    IN  dropped(take(p.stacks, mv_sq(mv), taken), spread_walk(p, mv), new_player_bbs(p, mv))
\* variant: the piece always belongs to the side to move
dropped_player_stm(p) == p.stm

\* the owner of a placed piece (the opening swap)
dropped_player(p) == IF p.ply < 2 THEN flip(p.stm) ELSE p.stm

\* variant: the hand of the side to move pays for the piece
apply_placement_stm_hand(p, mv) ==
    LET dp == dropped_player(p)
        pt == mv_pt(mv)
    IN  [p EXCEPT !.stacks = push(p.stacks, mv_sq(mv), pt, dp),
                  !.players[dp] = @ \cup {mv_sq(mv)},
                  !.pieces[pt] = @ \cup {mv_sq(mv)},
                  !.caps_in_hand[p.stm] = IF pt = Capstone THEN SubU8(@, 1) ELSE @,
                  !.flats_in_hand[p.stm] = IF pt = Capstone THEN @ ELSE SubU8(@, 1)]

\* variant: both players pay for the piece
apply_placement_both_hands(p, mv) ==
    LET dp == dropped_player(p)
        pt == mv_pt(mv)
    IN  [p EXCEPT !.stacks = push(p.stacks, mv_sq(mv), pt, dp),
                  !.players[dp] = @ \cup {mv_sq(mv)},
                  !.pieces[pt] = @ \cup {mv_sq(mv)},
                  !.caps_in_hand = [q \in Players |-> IF pt = Capstone THEN SubU8(@[q], 1)
                                                      ELSE @[q]],
                  !.flats_in_hand = [q \in Players |-> IF pt = Capstone THEN @[q]
                                                       ELSE SubU8(@[q], 1)]]

apply_placement(p, mv) ==
    LET dp == dropped_player(p)
        pt == mv_pt(mv)
    IN  [p EXCEPT !.stacks = push(p.stacks, mv_sq(mv), pt, dp),
                  !.players[dp] = @ \cup {mv_sq(mv)},
                  !.pieces[pt] = @ \cup {mv_sq(mv)},
                  !.caps_in_hand[dp] = IF pt = Capstone THEN SubU8(@, 1) ELSE @,
                  !.flats_in_hand[dp] = IF pt = Capstone THEN @ ELSE SubU8(@, 1)]

\* variant: the side-to-move key is left as it was
apply_move_key_kept(p, mv) ==
    LET turn(np) == [np EXCEPT !.stm = flip(@),
                               !.ply = @ + 1]
    IN  turn(IF is_spread(mv) THEN apply_spread(p, mv) ELSE apply_placement(p, mv))

apply_move(p, mv) ==
    LET turn(np) == [np EXCEPT !.stm = flip(@),
                               !.ply = @ + 1,
                               !.player_key = Toggle(@, p2_key)]
    IN  turn(IF is_spread(mv) THEN apply_spread(p, mv) ELSE apply_placement(p, mv))

\* the debug assertions on the path of apply_move (its own, and those of
\* Stacks::take / Stacks::push / Option::unwrap that it reaches)
apply_move_pre(p, mv) ==
    IF is_spread(mv)
    THEN /\ top(p.stacks, mv_sq(mv)) # None
         /\ top_player(p.stacks, mv_sq(mv)) = p.stm
         /\ p.ply >= 2
         /\ take_pre(p.stacks, mv_sq(mv), 6 - trailing_zeros(mv_pattern(mv)))
         /\ spread_walk(p, mv).ok
    ELSE /\ top(p.stacks, mv_sq(mv)) = None
         /\ (p.ply >= 2 \/ mv_pt(mv) = Flat)
         /\ push_pre(p.stacks, mv_sq(mv))

\* the per-square step of Position::regen (bit-sets and hands) for a
\* non-empty square
regen_square(p, sq) ==
    LET player == top_player(p.stacks, sq)
        t == top(p.stacks, sq)
        bitmap == p.stacks.players[sq]
        h == height(p.stacks, sq)
        \* covered = (1 << (height - 1)) - 1
        ones == count_ones(LowBits(bitmap, h - 1))
        zeros == (h - 1) - ones
        flats1 == IF t = Capstone THEN p.flats_in_hand
                  ELSE [p.flats_in_hand EXCEPT ![player] = SubU8(@, 1)]
    IN  [p EXCEPT !.players[player] = @ \cup {sq},
                  !.pieces[t] = @ \cup {sq},
                  !.caps_in_hand[player] = IF t = Capstone THEN SubU8(@, 1) ELSE @,
                  !.flats_in_hand = [q \in Players |->
                      SubU8(flats1[q], IF q = P1 THEN zeros ELSE ones)]]

\* the loop over the squares in index order; the empty squares are skipped
RECURSIVE regen_from(_, _)
regen_from(p, todo) ==
    IF todo = {} THEN p
    ELSE LET sq == CHOOSE s \in todo : \A t \in todo : s <= t
             p1 == regen_square(p, sq)
         IN  IF evaluated(p1) THEN regen_from(p1, todo \ {sq}) ELSE p1

regen(p) ==
    LET p0 == [p EXCEPT !.players = [q \in Players |-> {}],
                        !.pieces = [pt \in PieceTypes |-> {}],
                        !.flats_in_hand = [q \in Players |-> INITIAL_FLATS],
                        !.caps_in_hand = [q \in Players |-> INITIAL_CAPS]]
        p1 == regen_from(p0, {sq \in Squares : ~stack_is_empty(p.stacks, sq)})
    IN  [p1 EXCEPT !.stacks = regen_key(p1.stacks, occ(p1)),
                   !.player_key = IF p1.stm = P2 THEN {p2_key} ELSE {}]

\* the debug assertions apply_move makes on what it has computed: the new
\* player sets of a spread are disjoint, no square is in all three piece
\* sets, the player sets are disjoint, the piece sets and the player sets
\* cover the same squares, and regen leaves the new position as it is
apply_move_post(p, mv) ==
    LET np == apply_move(p, mv)
    IN  /\ is_spread(mv) =>
              /\ new_player_bbs(p, mv)[P1] \cap new_player_bbs(p, mv)[P2] = {}
              /\ (piece_bb(np, Flat) \cap piece_bb(np, Wall)) \cap piece_bb(np, Capstone) = {}
              /\ player_bb(np, P1) \cap player_bb(np, P2) = {}
              /\ (piece_bb(np, Flat) \cup piece_bb(np, Wall)) \cup piece_bb(np, Capstone)
                    = player_bb(np, P1) \cup player_bb(np, P2)
        /\ regen(np) = np

(***************************************************************************)
(* movegen.rs: the move generator                                          *)
(***************************************************************************)
\* the sequences of k positive drop counts that sum to n
RECURSIVE compositions(_, _)
compositions(n, k) ==
    IF k = 1 THEN (IF n >= 1 THEN {<<n>>} ELSE {})
    ELSE UNION {{<<d>> \o rest : rest \in compositions(n - d, k - 1)} : d \in 1 .. (n - k + 1)}

CompositionTable ==
    [n \in 1 .. CARRY_LIMIT |-> [k \in 1 .. CARRY_LIMIT |-> compositions(n, k)]]

\* the drop schedule of a sequence of drop counts: one bit per square, the
\* first at 6 - taken, each next one higher by the count left behind
RECURSIVE schedule_bits(_, _, _)
schedule_bits(drops, idx, at) ==
    IF idx > Len(drops) THEN 0
    ELSE Pow2(at) + schedule_bits(drops, idx + 1, at + drops[idx])

RECURSIVE sum_seq(_)
sum_seq(q) == IF q = <<>> THEN 0 ELSE Head(q) + sum_seq(Tail(q))

pattern_of(drops) == schedule_bits(drops, 1, CARRY_LIMIT - sum_seq(drops))

\* the squares after sq in a direction that carry no blocker, up to the
\* first blocker or the edge, and the top of that first blocker (or None)
RECURSIVE ray(_, _, _, _)
ray(p, sq, dir, free) ==
    LET nxt == shift_checked(sq, dir)
    IN  IF nxt = None THEN <<free, None>>
        ELSE IF nxt \in all_blockers(p) THEN <<free, top(p.stacks, nxt)>>
        ELSE ray(p, nxt, dir, free + 1)

min(a, b) == IF a < b THEN a ELSE b

generate_spreads(p, sq, dir) ==
    LET r == ray(p, sq, dir, 0)
        free == r[1]
        most == min(CARRY_LIMIT, height(p.stacks, sq))
        plain == UNION {UNION {{spread(sq, dir, pattern_of(d)) : d \in CompositionTable[n][k]} :
                               k \in 1 .. min(free, n)} : n \in 1 .. most}
        smash == IF r[2] = Wall /\ top(p.stacks, sq) = Capstone
                 THEN UNION {{spread(sq, dir, pattern_of(d)) :
                                 d \in {c \in CompositionTable[n][free + 1] : c[free + 1] = 1}} :
                             n \in (free + 1) .. most}
                 ELSE {}
    IN  plain \cup smash

generate_moves(p) ==
    LET empty == {sq \in Squares : stack_is_empty(p.stacks, sq)}
    IN  IF p.ply < 2 THEN {placement(Flat, sq) : sq \in empty}
        ELSE (IF p.flats_in_hand[p.stm] > 0
              THEN {placement(pt, sq) : pt \in {Flat, Wall}, sq \in empty} ELSE {})
             \cup (IF p.caps_in_hand[p.stm] > 0
                   THEN {placement(Capstone, sq) : sq \in empty} ELSE {})
             \cup UNION {generate_spreads(p, sq, dir) :
                            sq \in {o \in Squares : top_player(p.stacks, o) = p.stm},
                            dir \in Directions}

(***************************************************************************)
(* board.rs: TPS text.  A string is a sequence of one-character strings.   *)
(***************************************************************************)
Digits == <<"0", "1", "2", "3", "4", "5", "6", "7", "8", "9">>

\* format!("{}", n) of an unsigned integer
RECURSIVE format_uint(_)
format_uint(n) ==
    IF n < 10 THEN <<Digits[n + 1]>>
    ELSE Append(format_uint(n \div 10), Digits[(n % 10) + 1])

digit_value(c) == CHOOSE d \in 0 .. 9 : Digits[d + 1] = c

is_digit(c) == \E d \in 0 .. 9 : Digits[d + 1] = c

\* the largest value the digit accumulator distinguishes (the widest power
\* of ten below 2^31); larger values are kept as this one
DigitSaturation == 10 ^ 9

U16_MAX == 65535

\* u32::MAX (4294967295) is beyond the accumulator: every value up to the
\* saturation point is taken as fitting
U32_MAX == DigitSaturation

\* str::parse of an unsigned integer with the given maximum: None on an
\* empty string, a non-digit or a value that does not fit
RECURSIVE parse_digits(_, _)
parse_digits(str, acc) ==
    IF str = <<>> THEN acc
    ELSE IF ~is_digit(Head(str)) THEN None
    ELSE LET v == acc * 10 + digit_value(Head(str))
         IN  parse_digits(Tail(str), IF acc >= DigitSaturation \div 10
                                     THEN DigitSaturation ELSE v)

parse_uint(str, max) ==
    LET body == IF str # <<>> /\ Head(str) = "+" THEN Tail(str) ELSE str
        v == IF body = <<>> THEN None ELSE parse_digits(body, 0)
    IN  IF v = None \/ v > max THEN None ELSE v

\* str::split(sep): the pieces between the separators (always at least one)
RECURSIVE split(_, _)
split(str, sep) ==
    IF \A i \in 1 .. Len(str) : str[i] # sep THEN <<str>>
    ELSE LET i == CHOOSE j \in 1 .. Len(str) :
                      str[j] = sep /\ \A k \in 1 .. (j - 1) : str[k] # sep
         IN  <<SubSeq(str, 1, i - 1)>> \o split(SubSeq(str, i + 1, Len(str)), sep)

\* str::split_ascii_whitespace: the non-empty pieces between blanks
split_ascii_whitespace(str) == SelectSeq(split(str, " "), LAMBDA w : w # <<>>)

\* [String]::join(sep)
RECURSIVE join(_, _)
join(groups, sep) ==
    IF groups = <<>> THEN <<>>
    ELSE IF Len(groups) = 1 THEN groups[1]
    ELSE groups[1] \o <<sep>> \o join(Tail(groups), sep)

\* variant: a Capstone is written like a Wall
tps_stack_cap_as_wall(st, sq) ==
    [i \in 1 .. height(st, sq) |-> IF stack_iter(st, sq)[i] = P1 THEN "1" ELSE "2"]
    \o (CASE top(st, sq) = Wall -> <<"S">>
          [] top(st, sq) = Capstone -> <<"S">>
          [] OTHER -> <<>>)

\* the text of a non-empty stack: the owners bottom-up, then S or C
tps_stack(st, sq) ==
    [i \in 1 .. height(st, sq) |-> IF stack_iter(st, sq)[i] = P1 THEN "1" ELSE "2"]
    \o (CASE top(st, sq) = Wall -> <<"S">>
          [] top(st, sq) = Capstone -> <<"C">>
          [] OTHER -> <<>>)

\* the number of empty squares of the run that starts at (file, rank)
RECURSIVE empty_run(_, _, _)
empty_run(st, f, r) ==
    IF f < 5 /\ stack_is_empty(st, from_file_rank(f + 1, r))
    THEN 1 + empty_run(st, f + 1, r)
    ELSE 1

RECURSIVE tps_groups(_, _, _)
tps_groups(st, f, r) ==
    IF ~(f < 6) THEN <<>>
    ELSE LET sq == from_file_rank(f, r)
         IN  IF stack_is_empty(st, sq)
             THEN LET empty == empty_run(st, f, r)
                  IN  <<IF empty > 1 THEN <<"x">> \o format_uint(empty) ELSE <<"x">>>>
                      \o tps_groups(st, f + empty, r)
             ELSE <<tps_stack(st, sq)>> \o tps_groups(st, f + 1, r)

RECURSIVE tps_ranks(_, _)
tps_ranks(st, r) ==
    join(tps_groups(st, 0, r), ",")
    \o (IF r > 0 THEN <<"/">> \o tps_ranks(st, r - 1) ELSE <<>>)

\* variant: the number written last is the number of plies played plus one
tps_ply_number(p) ==
    tps_ranks(p.stacks, 5)
    \o (IF p.stm = P1 THEN <<" ", "1">> ELSE <<" ", "2">>)
    \o <<" ">> \o format_uint(p.ply + 1)

tps(p) ==
    tps_ranks(p.stacks, 5)
    \o (IF p.stm = P1 THEN <<" ", "1">> ELSE <<" ", "2">>)
    \o <<" ">> \o format_uint((p.ply \div 2) + 1)

Err(e) == [ok |-> FALSE, err |-> e]

\* the character loop of one stack text: the owner digits and the piece
\* type letter (None when there is none)
RECURSIVE stack_chars(_, _, _)
stack_chars(str, owners, t) ==
    IF str = <<>> THEN [ok |-> TRUE, owners |-> owners, top |-> t]
    ELSE IF t # None THEN Err("ExcessCharsAfterStackTop")
    ELSE LET c == Head(str)
         IN  CASE c = "1" -> stack_chars(Tail(str), Append(owners, P1), t)
               [] c = "2" -> stack_chars(Tail(str), Append(owners, P2), t)
               [] c = "F" -> stack_chars(Tail(str), owners, Flat)
               [] c = "S" -> stack_chars(Tail(str), owners, Wall)
               [] c = "C" -> stack_chars(Tail(str), owners, Capstone)
               [] OTHER -> Err("InvalidCharInStack")

RECURSIVE push_owners(_, _, _, _, _)
push_owners(st, sq, owners, t, idx) ==
    IF idx > Len(owners) THEN st
    ELSE push_owners(push(st, sq, IF idx = Len(owners) THEN t ELSE Flat, owners[idx]),
                     sq, owners, t, idx + 1)

\* the loop over the comma-separated squares of one rank
RECURSIVE parse_rank(_, _, _, _)
parse_rank(st, groups, file_idx, rank_idx) ==
    IF groups = <<>> THEN [ok |-> TRUE, st |-> st, file_idx |-> file_idx]
    ELSE LET stack == Head(groups)
         IN  IF file_idx >= 6 THEN Err("WrongNumberOfFiles")
             ELSE IF stack = <<>> THEN Err("BlankFile")
             ELSE IF Head(stack) = "x"
             THEN IF Tail(stack) # <<>>
                  THEN LET empty == parse_uint(Tail(stack), U32_MAX)
                       IN  IF empty = None THEN Err("InvalidEmptyFileCount")
                           ELSE parse_rank(st, Tail(groups), file_idx + empty, rank_idx)
                  ELSE parse_rank(st, Tail(groups), file_idx + 1, rank_idx)
             ELSE LET sc == stack_chars(stack, <<>>, None)
                  IN  IF ~sc.ok THEN sc
                      ELSE parse_rank(push_owners(st, from_file_rank(file_idx, rank_idx),
                                                  sc.owners,
                                                  IF sc.top = None THEN Flat ELSE sc.top,
                                                  1),
                                      Tail(groups), file_idx + 1, rank_idx)

RECURSIVE parse_ranks(_, _, _)
parse_ranks(st, ranks, rank_idx) ==
    IF ~(rank_idx < 6) THEN [ok |-> TRUE, st |-> st]
    ELSE LET r == parse_rank(st, split(ranks[6 - rank_idx], ","), 0, rank_idx)
         IN  IF ~r.ok THEN r
             ELSE IF r.file_idx > 6 THEN Err("WrongNumberOfFiles")
             ELSE parse_ranks(r.st, ranks, rank_idx + 1)

from_tps_parts(parts) ==
    IF Len(parts) < 2 \/ Len(parts) > 3 THEN Err("WrongNumberOfParts")
    ELSE LET ranks == split(parts[1], "/")
         IN  IF Len(ranks) # 6 THEN Err("WrongNumberOfRanks")
             ELSE LET b == parse_ranks(startpos.stacks, ranks, 0)
                  IN  IF ~b.ok THEN b
                      ELSE IF parts[2] # <<"1">> /\ parts[2] # <<"2">> THEN Err("InvalidStm")
                      ELSE LET stm == IF parts[2] = <<"1">> THEN P1 ELSE P2
                               fullmove == IF Len(parts) >= 3 THEN parse_uint(parts[3], U16_MAX)
                                           ELSE 1
                           IN  IF fullmove = None THEN Err("InvalidFullmove")
                               ELSE [ok  |-> TRUE,
                                     pos |-> regen([startpos EXCEPT
                                                 !.stacks = b.st,
                                                 !.stm = stm,
                                                 !.ply = IF Len(parts) >= 3
                                                         THEN ((IF fullmove > 1 THEN fullmove
                                                                ELSE 1) - 1) * 2
                                                              + (IF stm = P2 THEN 1 ELSE 0)
                                                         ELSE 0])]

\* FromStr for Position
from_str(str) == from_tps_parts(split_ascii_whitespace(str))

(***************************************************************************)
(* core.rs, takmove.rs: the text of squares and moves                      *)
(***************************************************************************)
Files == <<"a", "b", "c", "d", "e", "f">>

\* a character outside ASCII (it takes more than one byte of the string)
NonAscii == {"U+00E9"}

is_ascii(str) == \A i \in 1 .. Len(str) : str[i] \notin NonAscii

\* Display for PieceType
piece_type_char(pt) == CASE pt = Flat -> "F" [] pt = Wall -> "S" [] OTHER -> "C"

\* Display for Direction
direction_char(dir) ==
    CASE dir = Up -> "+" [] dir = Down -> "-" [] dir = Left -> "<" [] OTHER -> ">"

\* variant: the rank digit counts from 0
square_to_string_rank0(sq) == <<Files[file(sq) + 1], Digits[rank(sq) + 1]>>

\* Display for Square
square_to_string(sq) == <<Files[file(sq) + 1], Digits[rank(sq) + 2]>>

\* FromStr for Square
square_from_str(str) ==
    IF ~is_ascii(str) THEN Err("NonAsciiString")
    ELSE IF Len(str) # 2 THEN Err("WrongLength")
    ELSE IF ~(\E f \in 1 .. 6 : Files[f] = str[1]) THEN Err("InvalidFile")
    ELSE IF ~(is_digit(str[2]) /\ digit_value(str[2]) \in 1 .. 6) THEN Err("InvalidRank")
    ELSE [ok |-> TRUE,
          sq |-> from_file_rank((CHOOSE f \in 1 .. 6 : Files[f] = str[1]) - 1,
                                digit_value(str[2]) - 1)]

\* the drop counts Display writes: the gaps between the set bits of the
\* pattern with the bit CARRY_LIMIT added and the lowest bit cleared
RECURSIVE drop_digits(_)
drop_digits(pattern) ==
    IF pattern = 0 THEN <<>>
    ELSE LET dropped == trailing_zeros(pattern)
             rest == Shr(pattern, dropped)
         IN  format_uint(dropped) \o drop_digits(rest - (rest % 2))

\* Display for Move
move_to_string(mv) ==
    IF is_spread(mv)
    THEN LET pattern == mv_pattern(mv)
             dropped == trailing_zeros(pattern)
             taken == 6 - dropped
             shifted == Shr(pattern + Pow2(CARRY_LIMIT), dropped)
         IN  IF taken = 1
             THEN square_to_string(mv_sq(mv)) \o <<direction_char(mv_dir(mv))>>
             ELSE format_uint(taken) \o square_to_string(mv_sq(mv))
                  \o <<direction_char(mv_dir(mv))>>
                  \o (IF count_ones(pattern) > 1
                      THEN drop_digits(shifted - (shifted % 2)) ELSE <<>>)
    ELSE IF mv_pt(mv) = Flat THEN square_to_string(mv_sq(mv))
         ELSE <<piece_type_char(mv_pt(mv))>> \o square_to_string(mv_sq(mv))

\* u16 << n for n < 16
Shl16(x, n) == (x % Pow2(16 - n)) * Pow2(n)

\* the loop over the drop digits of a spread text: pattern and bit after
\* the characters, or None at a character outside 1 ..= 6
RECURSIVE spread_pattern(_, _, _)
spread_pattern(chars, pattern, bit) ==
    IF chars = <<>> THEN pattern
    ELSE IF ~(is_digit(Head(chars)) /\ digit_value(Head(chars)) \in 1 .. 6) THEN None
    ELSE LET bit1 == Shl16(bit, digit_value(Head(chars)))
         IN  spread_pattern(Tail(chars),
                            IF Bit(pattern, trailing_zeros(bit1 + Pow2(16))) = 1
                            THEN pattern ELSE pattern + bit1,
                            bit1)

strip_suffix(str, c) ==
    IF str # <<>> /\ str[Len(str)] = c THEN SubSeq(str, 1, Len(str) - 1) ELSE str

\* FromStr for Move.  CARRY_LIMIT - taken is a u8 subtraction and the shift
\* by it a u16 shift: a build with overflow checks panics at the subtraction
\* when taken > CARRY_LIMIT, a build without them wraps the amount to
\* 256 + 6 - taken and takes it modulo 16
move_from_str_build(str, overflow_checks) ==
    IF ~is_ascii(str) THEN Err("NonAsciiString")
    ELSE IF Len(str) < 2 THEN Err("TooShort")
    ELSE LET c == str[1]
             pt == CASE c = "F" -> Flat [] c = "S" -> Wall [] c = "C" -> Capstone
                     [] OTHER -> None
             taken0 == IF is_digit(c) /\ digit_value(c) \in 1 .. 9
                       THEN digit_value(c) ELSE None
             next0 == IF pt # None \/ taken0 # None THEN 1 ELSE 0
         IN  IF Len(str) - next0 < 2 THEN Err("MissingSquare")
             ELSE LET sq == square_from_str(SubSeq(str, next0 + 1, next0 + 2))
                      next1 == next0 + 2
                  IN  IF ~sq.ok THEN Err(<<"InvalidSquare", sq.err>>)
                      ELSE IF next1 = Len(str)
                      THEN [ok |-> TRUE,
                            mv |-> placement(IF pt = None THEN Flat ELSE pt, sq.sq)]
                      ELSE LET d == str[next1 + 1]
                               dir == CASE d = "+" -> Up [] d = "-" -> Down
                                        [] d = "<" -> Left [] d = ">" -> Right
                                        [] OTHER -> None
                               next2 == next1 + 1
                               taken == IF taken0 = None THEN 1 ELSE taken0
                               bytes == strip_suffix(str, "*")
                               pattern0 == spread_pattern(SubSeq(bytes, next2 + 1, Len(bytes)),
                                                          1, 1)
                               pattern1 == Shl16(pattern0, SubU8(CARRY_LIMIT, taken) % 16)
                           IN  IF dir = None THEN Err("InvalidDirection")
                               ELSE IF Len(str) - next2 > 6 THEN Err("TooManySpreadSteps")
                               ELSE IF pattern0 = None THEN Err("InvalidSpreadPattern")
                               ELSE IF overflow_checks /\ taken > CARRY_LIMIT
                               THEN [ok |-> FALSE, err |-> "panic", panicked |-> TRUE]
                               ELSE IF Shr(pattern1, CARRY_LIMIT + 1) # 0
                               THEN Err("TooManySpreadPieces")
                               ELSE [ok |-> TRUE,
                                     mv |-> spread(sq.sq, dir, pattern1 % (PATTERN_MASK + 1))]

\* the build without overflow checks
move_from_str(str) == move_from_str_build(str, FALSE)


(***************************************************************************)
(* The game as a state machine: positions reached from startpos by moves   *)
(* that is_legal accepts.                                                  *)
(***************************************************************************)
\* squares on which moves are played: the last ActiveFiles files of rank 1
\* and f2
Active == {sq \in Squares : rank(sq) = 0 /\ file(sq) >= 6 - ActiveFiles} \cup {11}

Patterns == 1 .. PATTERN_MASK

PlacementMoves == {placement(pt, sq) : pt \in PieceTypes, sq \in Active}

SpreadMoves == {spread(sq, dir, pat) : sq \in Active, dir \in Directions, pat \in Patterns}

CandMoves == PlacementMoves \cup SpreadMoves

\* the candidate moves that is_legal accepts
LegalMoves(p) == {mv \in CandMoves : is_legal(p, mv)}

\* the squares a spread drops on, as apply_move walks them
walked(p, mv) == LET walk == spread_walk(p, mv).walk IN {walk[i] : i \in 1 .. Len(walk)}

\* no function is being applied
Idle == [stage |-> "idle"]

Init == pos = startpos /\ inp = None /\ out = Idle

PlayPlacement ==
    /\ pos.ply < MaxPly
    /\ \E mv \in PlacementMoves :
          /\ is_legal(pos, mv)
          /\ pos' = apply_move(pos, mv)
    /\ UNCHANGED <<inp, out>>

PlaySpread ==
    /\ pos.ply < MaxPly
    /\ \E mv \in SpreadMoves :
          /\ is_legal(pos, mv)
          /\ walked(pos, mv) \subseteq Active
          /\ pos' = apply_move(pos, mv)
    /\ UNCHANGED <<inp, out>>

Next == PlayPlacement \/ PlaySpread

Spec == Init /\ [][Next]_vars

(***************************************************************************)
(* Properties                                                              *)
(***************************************************************************)
\* every square that carries a stack
occupied(p) == {sq \in Squares : height(p.stacks, sq) > 0}

\* the pieces of a player on the board, at all heights
on_board(p, player) ==
    Cardinality(UNION {{<<sq, i>> : i \in {j \in 0 .. (height(p.stacks, sq) - 1) :
                                              Bit(p.stacks.players[sq], j) = player}} :
                       sq \in occupied(p)})

BitSetsDisjoint(p) ==
    /\ player_bb(p, P1) \cap player_bb(p, P2) = {}
    /\ piece_bb(p, Flat) \cap piece_bb(p, Wall) = {}
    /\ piece_bb(p, Flat) \cap piece_bb(p, Capstone) = {}
    /\ piece_bb(p, Wall) \cap piece_bb(p, Capstone) = {}
    /\ piece_bb(p, Flat) \cup piece_bb(p, Wall) \cup piece_bb(p, Capstone)
          = player_bb(p, P1) \cup player_bb(p, P2)

\* C1: in every position reached from startpos by moves that is_legal
\* accepts (and in the position every further legal move leads to) the two
\* player sets are disjoint, the three piece-type sets are pairwise disjoint
\* and their union is the union of the player sets.
C1_BitSetDisjointness ==
    /\ BitSetsDisjoint(pos)
    /\ \A mv \in LegalMoves(pos) : BitSetsDisjoint(apply_move(pos, mv))

\* a spread that captures a stack of the other player and leaves a piece of
\* the other player on top of the origin
C1_Witness ==
    \E mv \in LegalMoves(pos) :
        /\ is_spread(mv)
        /\ \E sq \in walked(pos, mv) : sq \in player_bb(pos, flip(pos.stm))
        /\ mv_sq(mv) \in player_bb(apply_move(pos, mv), flip(pos.stm))
        /\ piece_bb(pos, Wall) # {} /\ piece_bb(pos, Capstone) # {}

StacksAgree(p) ==
    \A sq \in Squares :
        /\ (height(p.stacks, sq) = 0) <=> (top(p.stacks, sq) = None)
        /\ (top(p.stacks, sq) = None) <=>
               (/\ \A q \in Players : sq \notin player_bb(p, q)
                /\ \A pt \in PieceTypes : sq \notin piece_bb(p, pt))
        /\ top(p.stacks, sq) # None =>
               /\ \A q \in Players :
                     (sq \in player_bb(p, q)) <=> (q = top_player(p.stacks, sq))
               /\ \A pt \in PieceTypes :
                     (sq \in piece_bb(p, pt)) <=> (pt = top(p.stacks, sq))

\* C2: after every legal apply_move the bit-sets agree with the stacks: a
\* square has height 0 iff its top is None iff it is in no set, a square
\* with top T owned by P is in exactly player_bb(P) and piece_bb(T), and
\* regen yields the same position.
C2_BitSetsMatchStacks ==
    \A mv \in LegalMoves(pos) :
        LET np == apply_move(pos, mv)
        IN  /\ StacksAgree(np)
            /\ regen(np) = np

\* a spread of a Wall or Capstone off a stack: the origin keeps a Flat
C2_Witness ==
    \E mv \in LegalMoves(pos) :
        /\ is_spread(mv)
        /\ top(pos.stacks, mv_sq(mv)) # Flat
        /\ height(apply_move(pos, mv).stacks, mv_sq(mv)) > 0

hand(p, player) == p.flats_in_hand[player] + p.caps_in_hand[player]

HandsAccount(p) == \A q \in Players : hand(p, q) + on_board(p, q) = 31

\* C3: for each player, flats in hand + capstones in hand + pieces on the
\* board = 31; a legal placement takes one piece from a non-empty pool of
\* the owner of the placed piece (the capstone pool for a Capstone, the flat
\* pool for a Flat or a Wall) and touches no other counter; a legal spread
\* changes no counter.
C3_HandAccounting ==
    /\ HandsAccount(pos)
    /\ \A mv \in LegalMoves(pos) :
          LET np == apply_move(pos, mv)
              owner == top_player(np.stacks, mv_sq(mv))
          IN  /\ HandsAccount(np)
              /\ is_spread(mv) =>
                    /\ np.flats_in_hand = pos.flats_in_hand
                    /\ np.caps_in_hand = pos.caps_in_hand
              /\ ~is_spread(mv) =>
                    /\ np.caps_in_hand[flip(owner)] = pos.caps_in_hand[flip(owner)]
                    /\ np.flats_in_hand[flip(owner)] = pos.flats_in_hand[flip(owner)]
                    /\ IF mv_pt(mv) = Capstone
                       THEN /\ pos.caps_in_hand[owner] >= 1
                            /\ np.caps_in_hand[owner] = pos.caps_in_hand[owner] - 1
                            /\ np.flats_in_hand[owner] = pos.flats_in_hand[owner]
                       ELSE /\ pos.flats_in_hand[owner] >= 1
                            /\ np.flats_in_hand[owner] = pos.flats_in_hand[owner] - 1
                            /\ np.caps_in_hand[owner] = pos.caps_in_hand[owner]

\* the side to move has placed its capstone, still has flats to place, and
\* can spread a stack
C3_Witness ==
    /\ pos.caps_in_hand[pos.stm] = 0
    /\ \E mv \in LegalMoves(pos) : is_spread(mv) /\ height(pos.stacks, mv_sq(mv)) >= 2
    /\ \E mv \in LegalMoves(pos) : ~is_spread(mv) /\ mv_pt(mv) = Wall

KeysRegenerated(p) ==
    /\ p.stacks.keys = regen_key(p.stacks, occ(p)).keys
    /\ p.player_key = (IF p.stm = P2 THEN {p2_key} ELSE {})

\* C4: after apply_move of a legal move the incrementally updated keys
\* (stacks, blockers, roads, tops and the side-to-move key) equal the keys
\* regenerated from scratch over the resulting board.
C4_ZobristIncremental ==
    \A mv \in LegalMoves(pos) : KeysRegenerated(apply_move(pos, mv))

\* a spread that takes the whole of a stack of two or more and covers a
\* non-empty square
C4_Witness ==
    \E mv \in LegalMoves(pos) :
        /\ is_spread(mv)
        /\ height(pos.stacks, mv_sq(mv)) >= 2
        /\ height(apply_move(pos, mv).stacks, mv_sq(mv)) = 0
        /\ \E sq \in walked(pos, mv) : height(pos.stacks, sq) > 0

\* C5: for every candidate move m (a placement with a piece type, or a
\* spread with a non-zero pattern) on a reachable position, is_legal
\* accepts m iff the generator enumerates m; every generated move, on any
\* square, is accepted.
C5_LegalIffGenerated ==
    LET generated == generate_moves(pos)
    IN  /\ \A mv \in generated : is_legal(pos, mv)
        /\ \A mv \in CandMoves : is_legal(pos, mv) => mv \in generated

\* the generator yields a spread over two squares and a Capstone that
\* flattens a Wall, and a Capstone placement is refused for want of one
C5_Witness ==
    /\ pos.caps_in_hand[pos.stm] = 0
    /\ \E sq \in Active : stack_is_empty(pos.stacks, sq)
    /\ \E mv \in generate_moves(pos) :
          /\ is_spread(mv)
          /\ count_ones(mv_pattern(mv)) >= 2
    /\ \E mv \in generate_moves(pos) :
          /\ is_spread(mv)
          /\ \E sq \in walked(pos, mv) : top(pos.stacks, sq) = Wall

AllSpreads == {spread(sq, dir, pat) : sq \in Squares, dir \in Directions, pat \in Patterns}

\* C6: while ply < 2, is_legal rejects every spread and every Wall or
\* Capstone placement, and a legal Flat placement puts on the square one
\* Flat of the opponent of the side to move, taken from that opponent's flat
\* reserve; from ply 2 on a placed piece belongs to the side to move.
C6_OpeningSwap ==
    /\ pos.ply < 2 =>
          /\ \A mv \in AllSpreads : ~is_legal(pos, mv)
          /\ \A sq \in Squares : \A pt \in {Wall, Capstone} :
                ~is_legal(pos, placement(pt, sq))
          /\ \A sq \in Squares :
                is_legal(pos, placement(Flat, sq)) =>
                   LET np == apply_move(pos, placement(Flat, sq))
                       opp == flip(pos.stm)
                   IN  /\ height(np.stacks, sq) = 1
                       /\ top(np.stacks, sq) = Flat
                       /\ top_player(np.stacks, sq) = opp
                       /\ sq \in player_bb(np, opp)
                       /\ np.flats_in_hand[opp] = pos.flats_in_hand[opp] - 1
                       /\ np.flats_in_hand[pos.stm] = pos.flats_in_hand[pos.stm]
                       /\ np.caps_in_hand = pos.caps_in_hand
    /\ pos.ply >= 2 =>
          \A mv \in LegalMoves(pos) :
              ~is_spread(mv) =>
                 /\ top_player(apply_move(pos, mv).stacks, mv_sq(mv)) = pos.stm
                 /\ mv_sq(mv) \in player_bb(apply_move(pos, mv), pos.stm)

\* the second opening placement: P2 to move, a piece of P2 already placed by
\* P1, and a free square to place a piece of P1 on
C6_Witness ==
    /\ pos.ply = 1
    /\ \E sq \in Squares : top_player(pos.stacks, sq) = P2
    /\ \E sq \in Squares : is_legal(pos, placement(Flat, sq))

\* the n squares after sq in a direction, by the board's geometry; None
\* marks the place where the line leaves the board
RECURSIVE line_from(_, _, _)
line_from(sq, dir, n) ==
    IF n = 0 THEN <<>>
    ELSE LET nxt == shift_checked(sq, dir)
         IN  IF nxt = None THEN <<None>>
             ELSE <<nxt>> \o line_from(nxt, dir, n - 1)

stays_on_board(line) == \A i \in 1 .. Len(line) : line[i] # None

\* C7: every move is_legal accepts meets the assertions of apply_move,
\* Stacks::take and Stacks::push (none fires): a spread's origin is
\* non-empty and topped by the side to move, 1 <= taken <= min(6, height),
\* no piece is pushed on a Capstone, the squares walked are the board
\* squares that follow the origin on its rank or file; a placement's square
\* is empty.
C7_LegalMeetsPreconditions ==
    \A mv \in LegalMoves(pos) :
        /\ apply_move_pre(pos, mv)
        /\ apply_move_post(pos, mv)
        /\ is_spread(mv) =>
              LET taken == 6 - trailing_zeros(mv_pattern(mv))
                  w == spread_walk(pos, mv)
              IN  /\ 1 <= taken
                  /\ taken <= min(6, height(pos.stacks, mv_sq(mv)))
                  /\ top_player(pos.stacks, mv_sq(mv)) = pos.stm
                  /\ w.walk = line_from(mv_sq(mv), mv_dir(mv), count_ones(mv_pattern(mv)))
                  /\ stays_on_board(w.walk)
        /\ ~is_spread(mv) => height(pos.stacks, mv_sq(mv)) = 0

\* a legal spread from an edge square along the edge, next to squares whose
\* unchecked shift would wrap to the neighbouring rank
C7_Witness ==
    \E mv \in LegalMoves(pos) :
        /\ is_spread(mv)
        /\ file(mv_sq(mv)) = 5
        /\ mv_dir(mv) = Left
        /\ count_ones(mv_pattern(mv)) >= 2
        /\ height(pos.stacks, mv_sq(mv)) >= 2

RECURSIVE highest_bit(_)
highest_bit(x) == IF x <= 1 THEN 0 ELSE 1 + highest_bit(x \div 2)

\* the pieces a spread leaves on its last square
last_drop(pattern) == CARRY_LIMIT - highest_bit(pattern)

\* C8: a spread of a stack whose final square is topped by a Wall is legal
\* iff (the other rules being met: ply >= 2, own top, taken <= height, no
\* blocker before) the origin's top is a Capstone and exactly one
\* piece is dropped on that square; after it the square is topped by the
\* mover's Capstone, has left the Wall set for the Capstone set and is one
\* higher.  A spread that lands on or passes a Capstone, or passes a Wall
\* on a non-final square, is never legal.
C8_WallFlattening ==
    \A mv \in SpreadMoves :
        LET line == line_from(mv_sq(mv), mv_dir(mv), count_ones(mv_pattern(mv)))
            n == Len(line)
            fin == line[n]
            orig == mv_sq(mv)
            smash == top(pos.stacks, orig) = Capstone /\ last_drop(mv_pattern(mv)) = 1
            otherwise_ok ==
                /\ pos.ply >= 2
                /\ top_player(pos.stacks, orig) = pos.stm
                /\ 6 - trailing_zeros(mv_pattern(mv)) <= height(pos.stacks, orig)
                /\ \A i \in 1 .. (n - 1) : ~is_blocker(top(pos.stacks, line[i]))
            legal == is_legal(pos, mv)
        IN  (top(pos.stacks, orig) # None /\ stays_on_board(line)) =>
               /\ (top(pos.stacks, fin) = Wall /\ legal) =>
                     /\ smash
                     /\ LET np == apply_move(pos, mv)
                        IN  /\ top(np.stacks, fin) = Capstone
                            /\ top_player(np.stacks, fin) = pos.stm
                            /\ fin \notin piece_bb(np, Wall)
                            /\ fin \in piece_bb(np, Capstone)
                            /\ height(np.stacks, fin) = height(pos.stacks, fin) + 1
               /\ (top(pos.stacks, fin) = Wall /\ otherwise_ok /\ smash) => legal
               /\ ((\E i \in 1 .. n : top(pos.stacks, line[i]) = Capstone)
                   \/ (\E i \in 1 .. (n - 1) : top(pos.stacks, line[i]) = Wall))
                     => ~legal

\* a Capstone on a stack flattens a Wall, and a Flat-topped stack of the
\* side to move stands next to a Wall
C8_Witness ==
    /\ \E mv \in LegalMoves(pos) :
          /\ is_spread(mv)
          /\ height(pos.stacks, mv_sq(mv)) >= 2
          /\ \E sq \in walked(pos, mv) : top(pos.stacks, sq) = Wall
    /\ \E sq \in Active, dir \in {Left, Right} :
          /\ top_player(pos.stacks, sq) = pos.stm
          /\ top(pos.stacks, sq) = Flat
          /\ shift_checked(sq, dir) # None
          /\ top(pos.stacks, shift_checked(sq, dir)) = Wall

\* the indices of the set bits of a pattern, lowest first
RECURSIVE set_bits(_, _)
set_bits(x, i) ==
    IF x = 0 THEN <<>>
    ELSE (IF x % 2 = 1 THEN <<i>> ELSE <<>>) \o set_bits(x \div 2, i + 1)

\* the drop counts of a pattern: the gaps between successive set bits, the
\* last square receiving the remainder up to 6
drop_counts(pattern) ==
    LET bits == set_bits(pattern, 0)
    IN  [j \in 1 .. Len(bits) |->
            IF j < Len(bits) THEN bits[j + 1] - bits[j] ELSE CARRY_LIMIT - bits[j]]

\* C9: a legal spread with pattern p takes 6 - ctz(p) pieces off the
\* origin and lays them on the popcount(p) squares that follow it, the
\* j-th square receiving the j-th gap between the set bits of p (at least
\* one piece each, taken in all), bottom first and in their order; the old
\* top ends on top of the last square with its piece type, every other
\* square touched ends with a Flat on top.
C9_SpreadSemantics ==
    \A mv \in LegalMoves(pos) :
        is_spread(mv) =>
           LET pattern == mv_pattern(mv)
               taken == 6 - trailing_zeros(pattern)
               drops == drop_counts(pattern)
               k == count_ones(pattern)
               orig == mv_sq(mv)
               line == line_from(orig, mv_dir(mv), k)
               np == apply_move(pos, mv)
               h == height(pos.stacks, orig)
               old == stack_iter(pos.stacks, orig)
               moved == SubSeq(old, h - taken + 1, h)
               before(j) == sum_seq(SubSeq(drops, 1, j - 1))
           IN  /\ Len(drops) = k
               /\ stays_on_board(line)
               /\ sum_seq(drops) = taken
               /\ height(np.stacks, orig) = h - taken
               /\ stack_iter(np.stacks, orig) = SubSeq(old, 1, h - taken)
               /\ top(np.stacks, orig) = (IF h = taken THEN None ELSE Flat)
               /\ \A j \in 1 .. k :
                     /\ drops[j] >= 1
                     /\ height(np.stacks, line[j]) = height(pos.stacks, line[j]) + drops[j]
                     /\ stack_iter(np.stacks, line[j])
                           = stack_iter(pos.stacks, line[j])
                             \o SubSeq(moved, before(j) + 1, before(j) + drops[j])
                     /\ top(np.stacks, line[j])
                           = (IF j = k THEN top(pos.stacks, orig) ELSE Flat)

\* three pieces of both players under a Wall or Capstone, spread over two
\* squares
C9_Witness ==
    \E mv \in LegalMoves(pos) :
        /\ is_spread(mv)
        /\ 6 - trailing_zeros(mv_pattern(mv)) = 3
        /\ count_ones(mv_pattern(mv)) = 2
        /\ top(pos.stacks, mv_sq(mv)) # Flat
        /\ \E i, j \in 1 .. 3 : stack_iter(pos.stacks, mv_sq(mv))[i]
                                   # stack_iter(pos.stacks, mv_sq(mv))[j]

\* C10: parsing the text tps() writes for a reachable position yields Ok
\* with a Position equal to the original in every field.
C10_TpsRoundTrip == from_str(tps(pos)) = [ok |-> TRUE, pos |-> pos]

\* a stack under a Capstone, a Wall, a run of empty squares on rank 1 and
\* P2 to move
C10_Witness ==
    /\ pos.stm = P2
    /\ \E sq \in Squares : height(pos.stacks, sq) >= 2 /\ top(pos.stacks, sq) = Capstone
    /\ piece_bb(pos, Wall) # {}
    /\ \E sq \in Active : stack_is_empty(pos.stacks, sq)

(***************************************************************************)
(* The text of a move: Display, then FromStr of what Display wrote         *)
(***************************************************************************)
AllPlacements == {placement(pt, sq) : pt \in PieceTypes, sq \in Squares}

InitMoveText ==
    /\ pos = startpos
    /\ inp \in AllPlacements \cup AllSpreads
    /\ out = Idle

FormatMove ==
    /\ out.stage = "idle"
    /\ out' = [stage |-> "text", text |-> move_to_string(inp)]
    /\ UNCHANGED <<pos, inp>>

ParseMove ==
    /\ out.stage = "text"
    /\ out' = [stage |-> "parsed", text |-> out.text, res |-> move_from_str(out.text)]
    /\ UNCHANGED <<pos, inp>>

NextMoveText == FormatMove \/ ParseMove

SpecMoveText == InitMoveText /\ [][NextMoveText]_vars

\* C11: for every placement (3 piece types x 36 squares) and every spread
\* (36 squares x 4 directions x 63 patterns), parsing the text Display
\* writes returns Ok with the same 14-bit move value.
C11_MoveTextRoundTrip ==
    out.stage = "parsed" => out.res = [ok |-> TRUE, mv |-> inp]

\* a spread over three squares, written with its count and three drop
\* digits, has been parsed
C11_Witness ==
    /\ out.stage = "parsed"
    /\ is_spread(inp)
    /\ count_ones(mv_pattern(inp)) = 3
    /\ Len(out.text) = 7

(***************************************************************************)
(* bitboard.rs, road.rs, board.rs: road detection                          *)
(***************************************************************************)
UPPER_EDGE == 30 .. 35

LOWER_EDGE == 0 .. 5

LEFT_EDGE == {0, 6, 12, 18, 24, 30}

RIGHT_EDGE == {5, 11, 17, 23, 29, 35}

\* the four 64-bit lanes of the vector, lowest lane first
Lanes == <<"right", "left", "down", "up">>

LaneNames == {Lanes[i] : i \in 1 .. 4}

\* the bits of a 64-bit lane shifted towards the high and towards the low end
slli_epi64(m, n) == {s + n : s \in m} \cap (0 .. 63)

srli_epi64(m, n) == {s - n : s \in {t \in m : t >= n}}

\* the variant of calc_next_masks that lets a step cross the side edges
calc_next_masks_wrap(road_occ, masks) ==
    [l \in LaneNames |->
        LET ud == slli_epi64(masks[l], 6) \cup srli_epi64(masks[l], 6)
            lr == slli_epi64(masks[l], 1) \cup srli_epi64(masks[l], 1)
        IN  (ud \cup lr) \cap road_occ]

calc_next_masks(road_occ, masks) ==
    [l \in LaneNames |->
        LET ud == slli_epi64(masks[l], 6) \cup srli_epi64(masks[l], 6)
            lr == (slli_epi64(masks[l], 1) \ LEFT_EDGE)
                      \cup (srli_epi64(masks[l], 1) \ RIGHT_EDGE)
        IN  (ud \cup lr) \cap road_occ]

\* the sign bits of the lanes, gathered into four bits
movemask_pd(flags) ==
      (IF flags[Lanes[1]] THEN 1 ELSE 0) + (IF flags[Lanes[2]] THEN 2 ELSE 0)
    + (IF flags[Lanes[3]] THEN 4 ELSE 0) + (IF flags[Lanes[4]] THEN 8 ELSE 0)

\* the two 64-bit lanes of each 128-bit half exchanged
swizzle(masks) ==
    [right |-> masks.left, left |-> masks.right, down |-> masks.up, up |-> masks.down]

\* 1 when the two vectors have no bit in common
testz_si256(a, b) == IF \A l \in LaneNames : a[l] \cap b[l] = {} THEN 1 ELSE 0

\* signed comparison of two 64-bit lanes
gt_i64(a, b) ==
    LET diff == (a \ b) \cup (b \ a)
    IN  /\ diff # {}
        /\ LET hi == CHOOSE s \in diff : \A t \in diff : t <= s
           IN  IF hi = 63 THEN hi \in b ELSE hi \in a

cmpgt_epi64(a, b) == [l \in LaneNames |-> gt_i64(a[l], b[l])]

\* the values of bit for which the search for a road goes on
ROAD_CONTINUE == 63624

\* has_road_avx2 up to the loop: the first dilation of the four frontiers
road_first(road_occ, masks) ==
    LET next_masks == calc_next_masks(road_occ, masks)
        bit == movemask_pd([l \in LaneNames |-> next_masks[l] \ masks[l] # {}])
    IN  IF Bit(ROAD_CONTINUE, bit) = 0 THEN [stage |-> "done", ret |-> FALSE]
        ELSE [stage |-> "loop", masks |-> next_masks]

\* variant: the loop goes on only while all four frontiers grow
road_step_all_grow(road_occ, masks) ==
    LET next_masks == calc_next_masks(road_occ, masks)
    IN  IF testz_si256(next_masks, swizzle(next_masks)) = 0
        THEN [stage |-> "done", ret |-> TRUE]
        ELSE IF movemask_pd(cmpgt_epi64(next_masks, masks)) # 15
             THEN [stage |-> "done", ret |-> FALSE]
             ELSE [stage |-> "loop", masks |-> next_masks]

\* one turn of the loop of has_road_avx2
road_step(road_occ, masks) ==
    LET next_masks == calc_next_masks(road_occ, masks)
    IN  IF testz_si256(next_masks, swizzle(next_masks)) = 0
        THEN [stage |-> "done", ret |-> TRUE]
        ELSE IF Bit(ROAD_CONTINUE, movemask_pd(cmpgt_epi64(next_masks, masks))) = 0
             THEN [stage |-> "done", ret |-> FALSE]
             ELSE [stage |-> "loop", masks |-> next_masks]

RECURSIVE road_loop(_, _)
road_loop(road_occ, r) ==
    IF r.stage = "done" THEN r.ret ELSE road_loop(road_occ, road_step(road_occ, r.masks))

has_road_avx2(road_occ, up, down, left, right) ==
    road_loop(road_occ,
              road_first(road_occ, [right |-> right, left |-> left, down |-> down, up |-> up]))

\* the frontiers has_road starts from: the road squares of each edge and
\* their road neighbours one step inwards
road_seeds(road_occ) ==
    LET up    == road_occ \cap UPPER_EDGE
        down  == road_occ \cap LOWER_EDGE
        left  == road_occ \cap LEFT_EDGE
        right == road_occ \cap RIGHT_EDGE
    IN  [up    |-> up \cup (srli_epi64(up, 6) \cap road_occ),
         down  |-> down \cup (slli_epi64(down, 6) \cap road_occ),
         left  |-> left \cup (slli_epi64(left, 1) \cap road_occ),
         right |-> right \cup (srli_epi64(right, 1) \cap road_occ)]

has_road(road_occ) ==
    LET s == road_seeds(road_occ)
    IN  has_road_avx2(road_occ, s.up, s.down, s.left, s.right)

all_roads(p) == piece_bb(p, Flat) \cup piece_bb(p, Capstone)

roads(p, player) == all_roads(p) \cap player_bb(p, player)

\* Position::has_road
pos_has_road(p, player) == has_road(roads(p, player))

(***************************************************************************)
(* Road detection applied to boards of one player's pieces                 *)
(***************************************************************************)
\* the number of files, and of ranks, of the bands the boards are drawn from
BandWidth == 2

\* a band of files with its third square upwards, a band of ranks with its
\* third square to the right
Bands ==
    {[squares |-> {sq \in Squares : file(sq) < BandWidth}, marked |-> from_file_rank(0, 2)],
     [squares |-> {sq \in Squares : rank(sq) < BandWidth}, marked |-> from_file_rank(2, 0)]}

MarkedPieces ==
    {[pt |-> Flat, player |-> P1], [pt |-> Wall, player |-> P1],
     [pt |-> Capstone, player |-> P1], [pt |-> Flat, player |-> P2]}

RECURSIVE place_all(_, _, _, _)
place_all(st, todo, marked, piece) ==
    IF todo = {} THEN st
    ELSE LET sq == CHOOSE s \in todo : \A t \in todo : s <= t
             st1 == IF sq = marked THEN push(st, sq, piece.pt, piece.player)
                    ELSE push(st, sq, Flat, P1)
         IN  place_all(st1, todo \ {sq}, marked, piece)

\* the position with one piece on each of the squares: P1 flats, but for the
\* piece on the marked square
board_of(squares, marked, piece) ==
    regen([startpos EXCEPT !.stacks = place_all(startpos.stacks, squares, marked, piece)])

InitRoad ==
    /\ \E band \in Bands : \E squares \in SUBSET band.squares : \E piece \in MarkedPieces :
          /\ band.marked \notin squares => piece = [pt |-> Flat, player |-> P1]
          /\ inp = [squares |-> squares, marked |-> band.marked, piece |-> piece]
          /\ pos = board_of(squares, band.marked, piece)
    /\ out = Idle

\* has_road, and has_road_avx2 up to its loop
RoadFirst ==
    /\ out.stage = "idle"
    /\ LET s == road_seeds(roads(pos, P1))
       IN  out' = road_first(roads(pos, P1),
                             [right |-> s.right, left |-> s.left, down |-> s.down, up |-> s.up])
    /\ UNCHANGED <<pos, inp>>

RoadStep ==
    /\ out.stage = "loop"
    /\ out' = road_step(roads(pos, P1), out.masks)
    /\ UNCHANGED <<pos, inp>>

NextRoad == RoadFirst \/ RoadStep

SpecRoad == InitRoad /\ [][NextRoad]_vars

adjacent(a, b) ==
    \/ file(a) = file(b) /\ (rank(a) = rank(b) + 1 \/ rank(b) = rank(a) + 1)
    \/ rank(a) = rank(b) /\ (file(a) = file(b) + 1 \/ file(b) = file(a) + 1)

\* the squares of a set that a chain of adjacent squares of the set joins to
\* the squares reached
RECURSIVE chain_from(_, _)
chain_from(road_occ, reached) ==
    LET more == {s \in road_occ \ reached : \E r \in reached : adjacent(r, s)}
    IN  IF more = {} THEN reached ELSE chain_from(road_occ, reached \cup more)

joins(road_occ, from, to) == chain_from(road_occ, road_occ \cap from) \cap to # {}

joins_edges(road_occ) ==
    \/ joins(road_occ, {sq \in Squares : rank(sq) = 0}, {sq \in Squares : rank(sq) = 5})
    \/ joins(road_occ, {sq \in Squares : file(sq) = 0}, {sq \in Squares : file(sq) = 5})

\* the squares whose top piece is a Flat or a Capstone of the player
road_tops(p, player) ==
    {sq \in Squares : /\ ~stack_is_empty(p.stacks, sq)
                      /\ top(p.stacks, sq) \in {Flat, Capstone}
                      /\ top_player(p.stacks, sq) = player}

\* C12: has_road returns true exactly when the set holds a chain of squares,
\* each next to the one before along a rank or a file, that joins rank 1 to
\* rank 6 or file a to file f; Position::has_road applies it to the squares
\* topped by a Flat or a Capstone of the player, so that a Wall never counts.
C12_RoadIffEdgeChain ==
    /\ out.stage = "done" => out.ret = joins_edges(road_tops(pos, P1))
    /\ \A player \in Players :
          pos_has_road(pos, player) = joins_edges(road_tops(pos, player))

\* a road that needs the Capstone on the marked square has been found
C12_Witness ==
    /\ out.stage = "done"
    /\ out.ret
    /\ inp.marked \in inp.squares
    /\ inp.piece.pt = Capstone
    /\ ~joins_edges(road_tops(pos, P1) \ {inp.marked})

(***************************************************************************)
(* board.rs: the flat count                                                *)
(***************************************************************************)
player_piece_bb(p, pt, player) == player_bb(p, player) \cap piece_bb(p, pt)

\* the variant of has_no_more_pieces that looks at the flats only
has_no_more_pieces_flats_only(p, player) == p.flats_in_hand[player] = 0

has_no_more_pieces(p, player) ==
    p.flats_in_hand[player] = 0 /\ p.caps_in_hand[player] = 0

\* FlatCountOutcome
FlatCountNone == [kind |-> "None", player |-> None]

FlatCountDraw == [kind |-> "Draw", player |-> None]

FlatCountWin(player) == [kind |-> "Win", player |-> player]

count_flats(p) ==
    IF /\ (Squares \ occ(p)) # {}
       /\ ~has_no_more_pieces(p, P1)
       /\ ~has_no_more_pieces(p, P2)
    THEN FlatCountNone
    ELSE LET p1_flats == Cardinality(player_piece_bb(p, Flat, P1))
             p2_flats == Cardinality(player_piece_bb(p, Flat, P2)) + KOMI
         IN  IF p1_flats < p2_flats THEN FlatCountWin(P2)
             ELSE IF p1_flats = p2_flats THEN FlatCountDraw
             ELSE FlatCountWin(P1)

(***************************************************************************)
(* The flat count applied to boards that are full or nearly so             *)
(***************************************************************************)
\* the largest number of empty squares of a board
MaxEmpty == 2

\* the numbers of squares topped by a P2 flat
MinP2Flats == 15

MaxP2Flats == 18

\* the order in which the squares of a board are covered: squares of which
\* no two are neighbours, then squares of which no two are neighbours, then
\* d6, e6 and f6; the squares left empty are the last of the order
layout_order ==
    <<2, 4, 7, 9, 11, 12, 14, 16, 19, 21, 23, 24, 26, 28, 31, 0,
      30, 5, 15, 1, 3, 6, 8, 10, 13, 17, 18, 20, 22, 25, 27, 29, 32,
      33, 34, 35>>

\* the top of the i-th covered square: P2 flats first, then the Capstones,
\* the Walls, and P1 flats on the rest
layout_top(lay, i) ==
    LET a == lay.p2_flats
        b == a + lay.caps[P1]
        c == b + lay.caps[P2]
        d == c + lay.walls[P1]
        e == d + lay.walls[P2]
    IN  IF i <= a THEN [pt |-> Flat, player |-> P2]
        ELSE IF i <= b THEN [pt |-> Capstone, player |-> P1]
        ELSE IF i <= c THEN [pt |-> Capstone, player |-> P2]
        ELSE IF i <= d THEN [pt |-> Wall, player |-> P1]
        ELSE IF i <= e THEN [pt |-> Wall, player |-> P2]
        ELSE [pt |-> Flat, player |-> P1]

RECURSIVE push_flats(_, _, _, _)
push_flats(st, sq, player, n) ==
    IF n = 0 THEN st
    ELSE LET st1 == push(st, sq, Flat, player)
         IN  IF evaluated(st1) THEN push_flats(st1, sq, player, n - 1) ELSE st1

RECURSIVE layout_stacks(_, _, _)
layout_stacks(st, lay, i) ==
    LET covered == SquareCount - lay.empty
    IN  IF i > covered THEN st
        ELSE LET t == layout_top(lay, i)
                 sq == layout_order[i]
                 p1_tops == (covered - lay.p2_flats - lay.caps[P1] - lay.caps[P2])
                                - lay.walls[P2]
                 p2_tops == lay.p2_flats + lay.walls[P2]
                 \* the flats left to P1 lie under the first square of the
                 \* order, those left to P2 under the last covered square
                 st1 == IF i = 1 /\ lay.buried[P1]
                            THEN push_flats(st, sq, P1, INITIAL_FLATS - p1_tops)
                        ELSE IF i = covered /\ lay.buried[P2]
                            THEN push_flats(st, sq, P2, INITIAL_FLATS - p2_tops)
                        ELSE st
                 st2 == push(st1, sq, t.pt, t.player)
             IN  IF evaluated(st2) THEN layout_stacks(st2, lay, i + 1) ELSE st2

\* the number of plies played before a board of a layout
LayoutPly == 2 * INITIAL_FLATS

\* the position of a layout, with P1 to move
layout_position(lay) ==
    regen([startpos EXCEPT !.stacks = layout_stacks(startpos.stacks, lay, 1),
                           !.ply = LayoutPly])

Layouts ==
    [empty    : 0 .. MaxEmpty,
     p2_flats : MinP2Flats .. MaxP2Flats,
     caps     : [Players -> 0 .. INITIAL_CAPS],
     walls    : [Players -> 0 .. 1],
     buried   : [Players -> BOOLEAN]]

InitFlats ==
    /\ inp \in Layouts
    /\ pos = layout_position(inp)
    /\ out = Idle

CountFlats ==
    /\ out.stage = "idle"
    /\ out' = [stage |-> "done", res |-> count_flats(pos)]
    /\ UNCHANGED <<pos, inp>>

NextFlats == CountFlats

SpecFlats == InitFlats /\ [][NextFlats]_vars

\* the squares whose top piece is a Flat of the player
flat_tops(p, player) ==
    {sq \in Squares : /\ ~stack_is_empty(p.stacks, sq)
                      /\ top(p.stacks, sq) = Flat
                      /\ top_player(p.stacks, sq) = player}

\* C13: count_flats returns None exactly when some square is empty and each
\* player still holds a piece; otherwise it compares the number of squares
\* topped by a P1 Flat with the number topped by a P2 Flat plus 2: Win(P2)
\* when less, Draw when equal, Win(P1) when greater. Walls, Capstones and
\* buried pieces are not counted.
C13_FlatCount ==
    out.stage = "done" =>
        LET undecided == /\ \E sq \in Squares : stack_is_empty(pos.stacks, sq)
                         /\ \A player \in Players :
                               pos.flats_in_hand[player] + pos.caps_in_hand[player] >= 1
            p1 == Cardinality(flat_tops(pos, P1))
            p2 == Cardinality(flat_tops(pos, P2)) + 2
        IN  /\ (out.res = FlatCountNone) = undecided
            /\ ~undecided =>
                  /\ (out.res = FlatCountWin(P2)) = (p1 < p2)
                  /\ (out.res = FlatCountDraw) = (p1 = p2)
                  /\ (out.res = FlatCountWin(P1)) = (p1 > p2)

\* a board with an empty square, Walls, Capstones and buried flats, on which
\* P1 holds no piece, has been counted as a draw
C13_Witness ==
    /\ out.stage = "done"
    /\ out.res = FlatCountDraw
    /\ inp.empty >= 1
    /\ has_no_more_pieces(pos, P1)
    /\ ~has_no_more_pieces(pos, P2)
    /\ height(pos.stacks, layout_order[1]) > 1
    /\ piece_bb(pos, Wall) # {}

(***************************************************************************)
(* search.rs: the score of a child position that ends the game             *)
(***************************************************************************)
SCORE_INF == 32767

SCORE_MATE == SCORE_INF - 1

RECURSIVE repetition_scan(_, _, _, _, _)
repetition_scan(key_history, i, curr, ply, repetitions) ==
    IF i = 0 THEN FALSE
    ELSE IF key_history[i] = curr
         THEN LET required == 1 + (IF ply < 0 THEN 1 ELSE 0)
              IN  IF repetitions + 1 = required THEN TRUE
                  ELSE repetition_scan(key_history, i - 1, curr, ply - 1, repetitions + 1)
         ELSE repetition_scan(key_history, i - 1, curr, ply, repetitions)

\* variant: two occurrences are required at every ply
is_drawn_by_repetition_twofold(key_history, curr, ply) ==
    repetition_scan(key_history, Len(key_history), curr, -1, 0)

\* ThreadData::is_drawn_by_repetition: the history is read from its end
is_drawn_by_repetition(key_history, curr, ply) ==
    repetition_scan(key_history, Len(key_history), curr, ply - 1, 0)

\* a child that is searched, and a child that is scored at once
Recurse == [terminal |-> FALSE, score |-> 0]

Terminal(score) == [terminal |-> TRUE, score |-> score]

\* the flat count of the child of a placement
flat_count_score(p, new_pos, ply) ==
    LET outcome == count_flats(new_pos)
    IN  IF outcome = FlatCountNone THEN Recurse
        ELSE IF outcome = FlatCountDraw THEN Terminal(0)
        ELSE IF outcome.player = p.stm THEN Terminal(SCORE_MATE - ply - 1)
        ELSE Terminal((-SCORE_MATE) + ply + 1)

\* the variant of terminal_score that tests the opponent's road first
terminal_score_opponent_first(key_history, p, mv, ply) ==
    LET new_pos == apply_move(p, mv)
    IN  IF is_spread(mv) /\ pos_has_road(new_pos, flip(p.stm))
            THEN Terminal((-SCORE_MATE) + ply + 1)
        ELSE IF pos_has_road(new_pos, p.stm) THEN Terminal(SCORE_MATE - ply - 1)
        ELSE IF ~is_spread(mv) /\ flat_count_score(p, new_pos, ply).terminal
            THEN flat_count_score(p, new_pos, ply)
        ELSE IF is_spread(mv) /\ is_drawn_by_repetition(key_history, key(new_pos), ply)
            THEN Terminal(0)
        ELSE Recurse

\* the variant of terminal_score that never tests for a repetition
terminal_score_no_repetition(key_history, p, mv, ply) ==
    LET new_pos == apply_move(p, mv)
    IN  IF pos_has_road(new_pos, p.stm) THEN Terminal(SCORE_MATE - ply - 1)
        ELSE IF is_spread(mv) /\ pos_has_road(new_pos, flip(p.stm))
            THEN Terminal((-SCORE_MATE) + ply + 1)
        ELSE IF ~is_spread(mv) /\ flat_count_score(p, new_pos, ply).terminal
            THEN flat_count_score(p, new_pos, ply)
        ELSE Recurse

\* the tests search makes on the child of a move before it searches it; the
\* history holds the key of the parent already
terminal_score(key_history, p, mv, ply) ==
    LET tests(new_pos) ==
            IF pos_has_road(new_pos, p.stm) THEN Terminal(SCORE_MATE - ply - 1)
            ELSE IF is_spread(mv) /\ pos_has_road(new_pos, flip(p.stm))
                THEN Terminal((-SCORE_MATE) + ply + 1)
            ELSE IF ~is_spread(mv) /\ flat_count_score(p, new_pos, ply).terminal
                THEN flat_count_score(p, new_pos, ply)
            ELSE IF is_spread(mv) /\ is_drawn_by_repetition(key_history, key(new_pos), ply)
                THEN Terminal(0)
            ELSE Recurse
    IN  tests(apply_move(p, mv))

(***************************************************************************)
(* The children of boards near the end of a game, of a board with roads    *)
(* one move away, and of a game whose players move to and fro              *)
(***************************************************************************)
\* the largest ply of a node, counted from the root of the search
MaxSearchPly == 2

\* the largest number of plies played to and fro before the search
MaxHistory == 8

RECURSIVE with_stacks(_, _, _)
with_stacks(st, stacks, i) ==
    IF i > Len(stacks) THEN st
    ELSE LET s == stacks[i]
             st1 == push_owners(st, s.sq, s.owners, s.pt, 1)
         IN  IF evaluated(st1) THEN with_stacks(st1, stacks, i + 1) ELSE st1

\* the position with the given stacks (owners from the bottom to the top,
\* and the type of the top piece)
position_with(stacks, stm, ply) ==
    regen([startpos EXCEPT !.stacks = with_stacks(startpos.stacks, stacks, 1),
                           !.stm = stm, !.ply = ply])

flat_on(sq, player) == [sq |-> sq, owners |-> <<player>>, pt |-> Flat]

\* P2 flats on ranks 1 and 6 but for c1 and d6, where a P1 flat lies on a P2
\* flat; P1 flats on rank 2 but for c2, which is empty
RoadBoard ==
    position_with(
        <<flat_on(0, P2), flat_on(1, P2), [sq |-> 2, owners |-> <<P2, P1>>, pt |-> Flat],
          flat_on(3, P2), flat_on(4, P2), flat_on(5, P2),
          flat_on(6, P1), flat_on(7, P1), flat_on(9, P1), flat_on(10, P1), flat_on(11, P1),
          flat_on(30, P2), flat_on(31, P2), flat_on(32, P2),
          [sq |-> 33, owners |-> <<P2, P1>>, pt |-> Flat], flat_on(34, P2), flat_on(35, P2)>>,
        P1, 30)

\* the boards with an empty square on which each player holds a piece, the
\* flats left to P2 lie under the last covered square, and no Wall and no
\* Capstone has been placed
EndLayouts ==
    {lay \in Layouts : /\ lay.empty >= 1
                       /\ lay.p2_flats = MinP2Flats + 1
                       /\ lay.caps = [q \in Players |-> 0]
                       /\ lay.walls = [q \in Players |-> 0]
                       /\ lay.buried[P2]}

\* after the opening, a P1 flat on a1 and a P2 flat on f6
ShuffleBoard ==
    apply_move(apply_move(startpos, placement(Flat, 35)), placement(Flat, 0))

\* a1 to b1, f6 to e6, and back
ShuffleCycle ==
    <<spread(0, Right, 32), spread(35, Left, 32), spread(1, Left, 32), spread(34, Right, 32)>>

\* a board and the moves played to and fro on it
Scenes ==
    {[start |-> layout_position(lay), cycle |-> <<>>] : lay \in EndLayouts}
        \cup {[start |-> RoadBoard, cycle |-> <<>>],
              [start |-> ShuffleBoard, cycle |-> ShuffleCycle]}

RECURSIVE scene_position(_, _)
scene_position(scene, h) ==
    IF h = 0 THEN scene.start
    ELSE apply_move(scene_position(scene, h - 1),
                    scene.cycle[((h - 1) % Len(scene.cycle)) + 1])

\* the keys of the positions before the h-th
scene_keys(scene, h) == [i \in 1 .. h |-> key(scene_position(scene, i - 1))]

all_legal_moves(p) == {mv \in AllPlacements \cup AllSpreads : is_legal(p, mv)}

InitChild ==
    /\ \E scene \in Scenes :
       \E h \in 0 .. (IF Len(scene.cycle) = 0 THEN 0 ELSE MaxHistory) :
          /\ pos = scene_position(scene, h)
          /\ \E mv \in all_legal_moves(pos) : \E ply \in 0 .. MaxSearchPly :
                inp = [mv |-> mv, ply |-> ply, key_history |-> scene_keys(scene, h)]
    /\ out = Idle

\* thread.apply_move and the tests on the child
ScoreChild ==
    /\ out.stage = "idle"
    /\ out' = [stage |-> "scored",
               res   |-> terminal_score(Append(inp.key_history, key(pos)),
                                        pos, inp.mv, inp.ply)]
    /\ UNCHANGED <<pos, inp>>

NextChild == ScoreChild

SpecChild == InitChild /\ [][NextChild]_vars

\* a player has a road by the tops of the stacks
road_of(p, player) == joins_edges(road_tops(p, player))

\* the flat count ends the game: no square is empty or a hand is empty
flat_count_ends(p) ==
    \/ \A sq \in Squares : ~stack_is_empty(p.stacks, sq)
    \/ \E player \in Players : p.flats_in_hand[player] + p.caps_in_hand[player] = 0

\* the score, for the side that moved, of the flat count of a position
flat_count_result(p, mover, ply) ==
    LET p1 == Cardinality(flat_tops(p, P1))
        p2 == Cardinality(flat_tops(p, P2)) + 2
        winner == IF p1 > p2 THEN P1 ELSE P2
    IN  IF p1 = p2 THEN 0
        ELSE IF winner = mover THEN 32766 - ply - 1
        ELSE (-32766) + ply + 1

\* C14: a child on which the flat count ends the game (no empty square, or
\* a player without a piece in hand) and on which no player has a road is
\* scored by the flat count and not searched, be the move a placement or a
\* spread.
C14_FlatCountTerminalAnyMove ==
    out.stage = "scored" =>
        LET new_pos == apply_move(pos, inp.mv)
        IN  (/\ flat_count_ends(new_pos)
             /\ \A player \in Players : ~road_of(new_pos, player))
                => /\ out.res.terminal
                   /\ out.res.score = flat_count_result(new_pos, pos.stm, inp.ply)

occurrences(key_history, k) ==
    Cardinality({i \in 1 .. Len(key_history) : key_history[i] = k})

\* C20: when a spread produces a child whose key occurs twice or more in the
\* key history of the thread (the keys of the game before the root and the
\* keys pushed on the way from the root), the child is scored 0 and is not
\* searched.
C20_RepetitionDraw ==
    out.stage = "scored" =>
        LET new_pos == apply_move(pos, inp.mv)
            key_history == Append(inp.key_history, key(pos))
        IN  (is_spread(inp.mv) /\ occurrences(key_history, key(new_pos)) >= 2)
                => out.res = Terminal(0)

\* at the root, a spread back to a position that the game has been in twice
\* has been scored 0
C20_Witness ==
    /\ out.stage = "scored"
    /\ is_spread(inp.mv)
    /\ inp.ply = 0
    /\ occurrences(inp.key_history, key(apply_move(pos, inp.mv))) = 2
    /\ out.res = Terminal(0)

(***************************************************************************)
(* history.rs, movepick.rs: the order in which the moves of a node are     *)
(* tried.  A table of scores holds the entries that are not zero.          *)
(***************************************************************************)
\* Entry::get of the entry at an index of a table
entry_get(table, idx) == IF idx \in DOMAIN table THEN table[idx] ELSE 0

\* CountermoveHistory::move_idx
move_idx(mv) == (IF is_spread(mv) THEN 0 ELSE 1 + mv_pt(mv)) * SquareCount + mv_sq(mv)

\* SidedTables::default for each player
HistoryNew == [q \in Players |-> [hist |-> <<>>, conthist |-> <<>>]]

\* History::score
history_score(history, p, mv, prev) ==
    LET tables == history[p.stm]
    IN  entry_get(tables.hist, mv)
            + (IF prev # None
               THEN entry_get(tables.conthist, <<move_idx(prev), move_idx(mv)>>)
               ELSE 0)

Stages == <<"TtMove", "Killer1", "Killer2", "GenMoves", "Moves", "End">>

stage_idx(stage) == CHOOSE i \in 1 .. Len(Stages) : Stages[i] = stage

\* Stage::next
stage_next(stage) == Stages[stage_idx(stage) + 1]

KillerTableDefault == <<None, None>>

\* variant: the move is pushed even when slot 0 holds it
killer_push_always(killers, mv) == <<mv, killers[1]>>

\* KillerTable::push
killer_push(killers, mv) ==
    IF killers[1] # mv THEN <<mv, killers[1]>> ELSE killers

\* KillerTable::contains
killer_contains(killers, mv) == \E i \in 1 .. Len(killers) : killers[i] = mv

\* every encoding of a move, in ascending order
MoveEncodings == [i \in 1 .. (FLAG_MASK + 1) * FLAG_UNIT |-> i - 1]

\* the moves of a set, the smallest encoding first
ascending(moves) == SelectSeq(MoveEncodings, LAMBDA mv : mv \in moves)

\* generate_moves into the move buffer of the node
generated_buffer(p) == ascending(generate_moves(p))

\* Movepicker::new
movepicker_new(tt_move, killers, prev_move) ==
    [moves     |-> <<>>,
     scores    |-> <<>>,
     idx       |-> 0,
     tt_move   |-> tt_move,
     killers   |-> killers,
     prev_move |-> prev_move,
     stage     |-> "TtMove"]

\* Movepicker::score_moves
score_moves(mp, p, history) ==
    [mp EXCEPT !.scores =
        [i \in 1 .. Len(mp.moves) |->
            history_score(history, p, mp.moves[i], mp.prev_move)
                + (IF ~is_spread(mp.moves[i]) THEN 100 ELSE 0)]]

swap(q, i, j) == [q EXCEPT ![i] = q[j], ![j] = q[i]]

\* variant: the move at idx stays where it is
pick_best_in_place(mp) == mp

\* Movepicker::pick_best: the first of the best scored moves from idx on
\* changes places with the move at idx
pick_best(mp) ==
    LET rest == (mp.idx + 1) .. Len(mp.moves)
        best_idx == CHOOSE i \in rest :
                        /\ \A j \in rest : mp.scores[j] <= mp.scores[i]
                        /\ \A j \in rest : j < i => mp.scores[j] < mp.scores[i]
    IN  [mp EXCEPT !.scores = swap(mp.scores, mp.idx + 1, best_idx),
                   !.moves  = swap(mp.moves, mp.idx + 1, best_idx)]

\* what a call or a turn of the picker's loop gives: the picker after it, the
\* move, and whether the call has returned
Yield(mp, mv) == [mp |-> mp, mv |-> mv, returned |-> TRUE]

Continue(mp) == [mp |-> mp, mv |-> None, returned |-> FALSE]

\* the moves of the Moves stage that the stages before have yielded are
\* passed over
skipped_tt_only(mp, mv) == mp.tt_move = mv

skipped(mp, mv) == mp.tt_move = mv \/ killer_contains(mp.killers, mv)

\* the inner loop of the Moves stage
RECURSIVE moves_loop(_)
moves_loop(mp) ==
    IF mp.idx < Len(mp.moves)
    THEN LET picked == pick_best(mp)
             mv == picked.moves[mp.idx + 1]
             after == [picked EXCEPT !.idx = mp.idx + 1]
         IN  IF ~skipped(mp, mv) THEN Yield(after, mv) ELSE moves_loop(after)
    ELSE Continue(mp)

\* the Killer1 and Killer2 stages
killer_stage(mp, p, slot) ==
    LET killer == mp.killers[slot]
    IN  IF killer # None /\ killer # mp.tt_move /\ is_legal(p, killer)
        THEN Yield([mp EXCEPT !.stage = stage_next(mp.stage)], killer)
        ELSE Continue([mp EXCEPT !.stage = stage_next(mp.stage)])

\* one turn of the loop of Movepicker::next, the stage not being End
movepicker_turn(mp, p, history) ==
    LET advanced == [mp EXCEPT !.stage = stage_next(mp.stage)]
    IN  CASE mp.stage = "TtMove" ->
                IF mp.tt_move # None /\ is_legal(p, mp.tt_move)
                THEN Yield(advanced, mp.tt_move)
                ELSE Continue(advanced)
          [] mp.stage = "Killer1" -> killer_stage(mp, p, 1)
          [] mp.stage = "Killer2" -> killer_stage(mp, p, 2)
          [] mp.stage = "GenMoves" ->
                Continue(score_moves([advanced EXCEPT !.moves = generated_buffer(p)],
                                     p, history))
          [] OTHER ->
                LET r == moves_loop(mp)
                IN  IF r.returned THEN r
                    ELSE Continue([r.mp EXCEPT !.stage = stage_next(mp.stage)])

\* Movepicker::next
RECURSIVE movepicker_next(_, _, _)
movepicker_next(mp, p, history) ==
    IF mp.stage = "End" THEN Yield(mp, None)
    ELSE LET r == movepicker_turn(mp, p, history)
         IN  IF r.returned THEN r ELSE movepicker_next(r.mp, p, history)

\* Rust's division of integers, which rounds towards zero
div_trunc(a, b) == IF a >= 0 THEN a \div b ELSE -((-a) \div b)

abs(a) == IF a < 0 THEN -a ELSE a

\* the conversion `as i16`
as_i16(x) == ((x + 32768) % 65536) - 32768

HISTORY_LIMIT == 16384

\* variant: the bonus is added and nothing is taken off
history_entry_update_no_decay(value, bonus) == as_i16(value + bonus)

\* history.rs, Entry::update
history_entry_update(value, bonus) ==
    as_i16(value + bonus - div_trunc(value * abs(bonus), HISTORY_LIMIT))

HISTORY_MAX_BONUS == HISTORY_LIMIT \div 4

clamp(x, lo, hi) == IF x < lo THEN lo ELSE IF x > hi THEN hi ELSE x

\* a table with the entry at an index set
entry_set(table, idx, value) ==
    [i \in DOMAIN table \cup {idx} |-> IF i = idx THEN value ELSE table[i]]

\* History::update
history_update(history, p, mv, prev, bonus) ==
    LET clamped == clamp(bonus, -HISTORY_MAX_BONUS, HISTORY_MAX_BONUS)
        tables == history[p.stm]
        cont_idx == <<move_idx(prev), move_idx(mv)>>
    IN  [history EXCEPT ![p.stm] =
            [hist     |-> entry_set(tables.hist, mv,
                              history_entry_update(entry_get(tables.hist, mv), clamped)),
             conthist |-> IF prev # None
                          THEN entry_set(tables.conthist, cont_idx,
                                   history_entry_update(entry_get(tables.conthist, cont_idx),
                                                        clamped))
                          ELSE tables.conthist]]

(***************************************************************************)
(* The move picker run to its end on boards with many and with few moves   *)
(***************************************************************************)
\* the number of calls of next() made after the picker has reached its end
MaxNone == 2

\* the bonus given to a move to put it before the placements
PickerBonus == 200

wall_on(sq, player) == [sq |-> sq, owners |-> <<player>>, pt |-> Wall]

\* walls of the two players in turn on every square but the last `empty`
\* squares of rank 6, after as many plies as there are walls
WallBoard(empty) ==
    position_with([i \in 1 .. (SquareCount - empty) |->
                      wall_on(i - 1, (file(i - 1) + rank(i - 1)) % 2)],
                  (SquareCount - empty) % 2, SquareCount - empty)

\* the largest number of empty squares of the boards given to the picker
MaxPickerEmpty == 3

PickerBoards == {WallBoard(empty) : empty \in 1 .. MaxPickerEmpty}

\* moves given as TT move and killers: on each board some are legal
PickerMoves == {placement(Flat, 1), placement(Wall, 35),
                spread(33, Right, 32), spread(34, Right, 32)}

\* the tables that KillerTable::push makes
KillerTables ==
    {KillerTableDefault}
        \cup {killer_push(KillerTableDefault, a) : a \in PickerMoves}
        \cup {killer_push(killer_push(KillerTableDefault, a), b) : a, b \in PickerMoves}

\* no history, and the history after a bonus for a spread
Histories(p) ==
    {[history |-> HistoryNew, prev_move |-> None]}
        \cup {[history   |-> history_update(HistoryNew, p, mv, placement(Flat, 0),
                                            PickerBonus),
               prev_move |-> placement(Flat, 0)] :
                 mv \in {m \in PickerMoves : is_spread(m) /\ is_legal(p, m)}}

InitPicker ==
    /\ pos \in PickerBoards
    /\ \E tt_move \in PickerMoves \cup {None} : \E killers \in KillerTables :
       \E h \in Histories(pos) :
          /\ inp = [tt_move |-> tt_move, killers |-> killers,
                    prev_move |-> h.prev_move, history |-> h.history]
          /\ out = [stage    |-> "picking",
                    mp       |-> movepicker_new(tt_move, killers, h.prev_move),
                    returned |-> <<>>]

\* one turn of the loop of next()
PickerTurn ==
    /\ out.stage = "picking"
    /\ out.mp.stage # "End"
    /\ LET r == movepicker_turn(out.mp, pos, inp.history)
       IN  out' = [out EXCEPT !.mp = r.mp,
                              !.returned = IF r.returned THEN Append(@, r.mv) ELSE @]
    /\ UNCHANGED <<pos, inp>>

\* a call of next() at the End stage
PickerEnd ==
    /\ out.stage = "picking"
    /\ out.mp.stage = "End"
    /\ Cardinality({i \in 1 .. Len(out.returned) : out.returned[i] = None}) < MaxNone
    /\ out' = [out EXCEPT !.returned = Append(@, movepicker_next(out.mp, pos, inp.history).mv)]
    /\ UNCHANGED <<pos, inp>>

NextPicker == PickerTurn \/ PickerEnd

SpecPicker == InitPicker /\ [][NextPicker]_vars

\* the moves that the calls have yielded so far
yielded(returned) == SelectSeq(returned, LAMBDA mv : mv # None)

\* the TT move if legal, then the legal killers that are not the TT move
expected_first(p, tt_move, killers) ==
    SelectSeq(<<tt_move>> \o killers, LAMBDA mv : mv # None /\ is_legal(p, mv))

is_prefix(a, b) == Len(a) <= Len(b) /\ \A i \in 1 .. Len(a) : a[i] = b[i]

\* what the calls have returned is right
PickerYields ==
    out.stage = "picking" =>
        LET got == yielded(out.returned)
            first == expected_first(pos, inp.tt_move,
                         SelectSeq(inp.killers, LAMBDA k : k # inp.tt_move))
        IN  /\ \A i, j \in 1 .. Len(got) : got[i] = got[j] => i = j
            /\ \A i, j \in 1 .. Len(out.returned) :
                  (i < j /\ out.returned[i] = None) => out.returned[j] = None
            /\ is_prefix(got, first) \/ is_prefix(first, got)
            /\ Len(out.returned) = Len(got) + 1
                  => {got[i] : i \in 1 .. Len(got)} = all_legal_moves(pos)
            /\ Len(out.returned) = Len(got)
                  => \A i \in 1 .. Len(got) : is_legal(pos, got[i])

\* a turn keeps the stage or takes it to the next one
PickerStageStep ==
    out.stage = "picking" =>
        \/ out'.mp.stage = out.mp.stage
        \/ /\ out.mp.stage # "End"
           /\ out'.mp.stage = Stages[stage_idx(out.mp.stage) + 1]

\* C19: whatever the TT move and the killers, legal or not, the stage of the
\* picker goes from TtMove through Killer1, Killer2, GenMoves and Moves to End
\* one stage at a time and never back; the calls of next() yield every legal
\* move of the position once and no other move, the TT move first if it is
\* legal, then the legal killers that are not the TT move, then the other
\* moves; and after the first None every call returns None.
C19_MovepickerOrder == []PickerYields /\ [][PickerStageStep]_vars

\* a picker that was given a legal TT move, a legal killer and an illegal
\* one has yielded the TT move, the legal killer and then the other moves,
\* and None twice
C19_Witness ==
    /\ out.stage = "picking"
    /\ out.mp.stage = "End"
    /\ pos = WallBoard(2)
    /\ inp.tt_move = placement(Wall, 35)
    /\ inp.killers = <<spread(33, Right, 32), placement(Flat, 1)>>
    /\ Len(out.returned) = Cardinality(all_legal_moves(pos)) + MaxNone
    /\ out.returned[1] = placement(Wall, 35)
    /\ out.returned[2] = spread(33, Right, 32)
    /\ out.returned[Len(out.returned)] = None

(***************************************************************************)
(* eval.rs: the static evaluation                                          *)
(***************************************************************************)
\* Bitboard::shift: the bits move by the offset of the direction and those
\* that leave the 36 squares are dropped
bitboard_shift(b, dir) == {sq + offset(dir) : sq \in b} \cap Squares

\* one turn of the closure that makes RINGS
ring_next(curr, covered) ==
    (bitboard_shift(curr, Up) \cup bitboard_shift(curr, Down)
        \cup bitboard_shift(curr, Right) \cup bitboard_shift(curr, Left)) \ covered

RECURSIVE rings_from(_, _, _)
rings_from(curr, covered, n) ==
    IF n = 0 THEN <<>>
    ELSE LET next == ring_next(curr, covered)
         IN  <<curr>> \o rings_from(next, covered \cup next, n - 1)

RING_COUNT == 5

RINGS == rings_from({14, 15, 20, 21}, {14, 15, 20, 21}, RING_COUNT)

RING_VALUES == <<2, 8, -5, -15, -40>>

\* the weights of the pieces of its owner and of the other player under the
\* top of a stack, by the type of the top
SUPPORT_VALUES == <<30, 35, 40>>

CAPTIVE_VALUES == <<-40, -15, -20>>

\* the owners, as seen by a player, of the pieces under the top of a stack:
\* the part of the stack that counts and its height
stack_window(st, sq, player) ==
    LET h == height(st, sq)
        players == IF player = P2
                   THEN [i \in 1 .. h |-> 1 - Bit(st.players[sq], i - 1)]
                   ELSE [i \in 1 .. h |-> Bit(st.players[sq], i - 1)]
        cut == IF h > 7 THEN h - 7 ELSE 0
    IN  [i \in 1 .. ((h - cut) - 1) |-> players[i + cut]]

\* the stacks part of static_eval_player, for one square
stack_score(st, sq, player) ==
    IF height(st, sq) = 1 THEN 0
    ELSE LET window == stack_window(st, sq, player)
             support_count == Cardinality({i \in DOMAIN window : window[i] = 0})
             captive_count == Cardinality({i \in DOMAIN window : window[i] = 1})
             t == top(st, sq)
         IN  support_count * SUPPORT_VALUES[t + 1] + captive_count * CAPTIVE_VALUES[t + 1]

RECURSIVE sum_over(_, _, _, _)
sum_over(st, squares, player, acc) ==
    IF squares = {} THEN acc
    ELSE LET sq == CHOOSE s \in squares : TRUE
         IN  sum_over(st, squares \ {sq}, player, acc + stack_score(st, sq, player))

static_eval_player(p, player, komi) ==
    LET flats == (Cardinality(player_piece_bb(p, Flat, player)) + komi) * 75
        flats_in_hand == p.flats_in_hand[player] * (-13)
        caps_in_hand == p.caps_in_hand[player] * (-25)
        road_bb == roads(p, player)
        adj_horz == road_bb \cap bitboard_shift(road_bb, Left)
        adj_vert == road_bb \cap bitboard_shift(road_bb, Down)
        line_horz == adj_horz \cap bitboard_shift(adj_horz, Left)
        line_vert == adj_vert \cap bitboard_shift(adj_vert, Down)
        adj_value == (Cardinality(adj_horz) + Cardinality(adj_vert)) * 9
        line_value == (Cardinality(line_horz) + Cardinality(line_vert)) * 7
    IN  flats + flats_in_hand + caps_in_hand + adj_value + line_value
            + sum_over(p.stacks, player_bb(p, player), player, 0)

sign(player) == IF player = P1 THEN 1 ELSE -1

RECURSIVE ring_quality(_, _)
ring_quality(p, i) ==
    IF i > RING_COUNT THEN 0
    ELSE Cardinality(player_piece_bb(p, Flat, P1) \cap RINGS[i]) * RING_VALUES[i]
            - Cardinality(player_piece_bb(p, Flat, P2) \cap RINGS[i]) * RING_VALUES[i]
            + ring_quality(p, i + 1)

static_eval(p) ==
    LET p1_score == static_eval_player(p, P1, 0)
        p2_score == static_eval_player(p, P2, KOMI)
        eval == p1_score - p2_score + ring_quality(p, 1)
    IN  eval * sign(p.stm) + 30

(***************************************************************************)
(* correction.rs: the correction history.  The table of a key holds the    *)
(* entries that are not zero; two keys never share an entry.               *)
(***************************************************************************)
CORRECTION_LIMIT == 1024

\* correction.rs, Entry::update
correction_entry_update(value, bonus) ==
    as_i16(value + bonus - div_trunc(value * abs(bonus), CORRECTION_LIMIT))

CORRECTION_MAX_BONUS == CORRECTION_LIMIT \div 4

\* the keys of the Capstones and of the Walls on top of the stacks
cap_key(p) == p.stacks.keys.blockers \cap p.stacks.keys.roads

wall_key(p) == p.stacks.keys.blockers \ p.stacks.keys.roads

\* the entries of a position: the player to move, the table and the key
correction_entries(p) ==
    {<<p.stm, "blocker", p.stacks.keys.blockers>>,
     <<p.stm, "road", p.stacks.keys.roads>>,
     <<p.stm, "tops", p.stacks.keys.tops>>,
     <<p.stm, "cap", cap_key(p)>>,
     <<p.stm, "wall", wall_key(p)>>}

CorrectionHistoryNew == <<>>

\* variant: the bonus is not clamped
corrhist_update_unclamped(corrhist, p, depth, search_score, static_eval_) ==
    LET bonus == div_trunc((search_score - static_eval_) * depth, 8)
    IN  [e \in DOMAIN corrhist \cup correction_entries(p) |->
            IF e \in correction_entries(p)
            THEN correction_entry_update(entry_get(corrhist, e), bonus)
            ELSE corrhist[e]]

\* CorrectionHistory::update
corrhist_update(corrhist, p, depth, search_score, static_eval_) ==
    LET bonus == clamp(div_trunc((search_score - static_eval_) * depth, 8),
                       -CORRECTION_MAX_BONUS, CORRECTION_MAX_BONUS)
    IN  [e \in DOMAIN corrhist \cup correction_entries(p) |->
            IF e \in correction_entries(p)
            THEN correction_entry_update(entry_get(corrhist, e), bonus)
            ELSE corrhist[e]]

RECURSIVE sum_entries(_, _)
sum_entries(corrhist, entries) ==
    IF entries = {} THEN 0
    ELSE LET e == CHOOSE x \in entries : TRUE
         IN  entry_get(corrhist, e) + sum_entries(corrhist, entries \ {e})

\* CorrectionHistory::correction
correction(corrhist, p) == div_trunc(sum_entries(corrhist, correction_entries(p)), 16)

(***************************************************************************)
(* ttable.rs, limit.rs: the transposition table keeps the last entry       *)
(* stored under a key; the limits of a search answer as they please.       *)
(***************************************************************************)
SCORE_WIN == 25000

TtEntryDefault == [mv |-> None, score |-> 0, depth |-> 0, flag |-> "None"]

TranspositionTableNew == <<>>

\* a mate score counted from the node becomes one counted from the root
score_from_tt(score, ply) ==
    IF score > SCORE_WIN THEN score - ply
    ELSE IF score < -SCORE_WIN THEN score + ply
    ELSE score

score_to_tt(score, ply) ==
    IF score > SCORE_WIN THEN score + ply
    ELSE IF score < -SCORE_WIN THEN score - ply
    ELSE score

\* TranspositionTable::probe
tt_probe(tt, k, ply) ==
    IF k \in DOMAIN tt
    THEN [hit |-> TRUE, entry |-> [tt[k] EXCEPT !.score = score_from_tt(@, ply)]]
    ELSE [hit |-> FALSE, entry |-> TtEntryDefault]

\* TranspositionTable::store
tt_store(tt, k, score, best_move, depth, ply, flag) ==
    [e \in DOMAIN tt \cup {k} |->
        IF e = k
        THEN [mv |-> best_move, score |-> score_to_tt(score, ply),
              depth |-> depth, flag |-> flag]
        ELSE tt[e]]

\* Limits::should_stop_hard and Limits::should_stop_soft: the answers that
\* the limits of a search may give at a node count
should_stop_hard(nodes) == BOOLEAN

should_stop_soft(nodes) == BOOLEAN

(***************************************************************************)
(* search.rs: the search.  The calls of search in progress are a stack of  *)
(* frames, the last one being the call that runs; a frame is at its entry, *)
(* in its move loop, or waits for the call it has made.                    *)
(***************************************************************************)
MAX_PLY == 255

SCORE_MAX_MATE == SCORE_MATE - MAX_PLY

LMR_TABLE_MOVES == 64

\* LMR_REDUCTIONS, rows 1 to 6: the move numbers at which the reduction
\* (0.5 + ln(depth) * ln(move_number) / 2.5) as i32 reaches 1, 2, ...
LmrSteps == <<<<>>, <<7>>, <<4, 31>>, <<3, 15>>, <<3, 11, 49>>, <<3, 9, 33>>>>

\* LMR_REDUCTIONS[depth][move_number]; row 0 and column 0 are never written
lmr_reduction(depth, move_number) ==
    IF depth = 0 \/ move_number = 0 THEN 0
    ELSE Cardinality({i \in 1 .. Len(LmrSteps[depth]) : LmrSteps[depth][i] <= move_number})

max(a, b) == IF a > b THEN a ELSE b

\* RootMove::default with the move pushed on its PV
root_move_new(mv) == [score |-> -SCORE_INF, seldepth |-> 0, pv |-> <<mv>>]

\* update_pv
update_pv(mv, child) == <<mv>> \o child

\* the frame of a call of search::<NT>(pos, depth, ply, alpha, beta); pv is
\* the PV list of its ply as its caller has left it.  alpha0 and tried are
\* history: the alpha the call was made with, and the moves whose turn of
\* the loop has ended, each with its score
Frame(nt, p, depth, ply, alpha, beta, pv) ==
    [nt          |-> nt,
     pos         |-> p,
     depth       |-> depth,
     ply         |-> ply,
     alpha       |-> alpha,
     alpha0      |-> alpha,
     beta        |-> beta,
     tried       |-> <<>>,
     pc          |-> "entry",
     pv          |-> pv,
     child_pv    |-> <<>>,
     static_eval |-> 0,
     mp          |-> movepicker_new(None, KillerTableDefault, None),
     move_count  |-> 0,
     mv          |-> None,
     new_pos     |-> p,
     call        |-> "none",
     reduced     |-> 0,
     best_score  |-> -SCORE_INF,
     best_move   |-> None,
     tt_flag     |-> "UpperBound"]

frame_top(s) == s.frames[Len(s.frames)]

set_top(s, f) == [s EXCEPT !.frames[Len(s.frames)] = f]

call(s, f) == [s EXCEPT !.frames = Append(@, f)]

panic(s) == [s EXCEPT !.stage = "panic"]

\* the running call returns: its caller finds the value, and the PV list of
\* the ply of the call as the call has left it
return_value(s, value) ==
    LET f == frame_top(s)
        n == Len(s.frames)
        rest == SubSeq(s.frames, 1, n - 1)
    IN  [s EXCEPT !.ret = value,
                  !.frames = IF n > 1 /\ f.nt # "NonPv"
                             THEN [rest EXCEPT ![n - 1].child_pv = f.pv]
                             ELSE rest,
                  !.stage = IF n = 1 THEN "iteration_end" ELSE @]

\* variant: the value returned is alpha (fail-hard)
node_end_fail_hard(s, f) ==
    LET learn == \/ f.tt_flag = "Exact"
                 \/ f.tt_flag = "UpperBound" /\ f.best_score < f.static_eval
                 \/ f.tt_flag = "LowerBound" /\ f.best_score > f.static_eval
        s1 == IF learn
              THEN [s EXCEPT !.thread.corrhist =
                        corrhist_update(@, f.pos, f.depth, f.best_score, f.static_eval)]
              ELSE s
        s2 == [s1 EXCEPT !.tt = tt_store(@, key(f.pos), f.best_score, f.best_move,
                                         f.depth, f.ply, f.tt_flag)]
    IN  return_value(set_top([s2 EXCEPT !.ended = <<f>>], f), f.alpha)

\* the end of search: the correction history, the table, the value; ended
\* is history, the frame of the last call that ran to this end
node_end(s, f) ==
    LET learn == \/ f.tt_flag = "Exact"
                 \/ f.tt_flag = "UpperBound" /\ f.best_score < f.static_eval
                 \/ f.tt_flag = "LowerBound" /\ f.best_score > f.static_eval
        s1 == IF learn
              THEN [s EXCEPT !.thread.corrhist =
                        corrhist_update(@, f.pos, f.depth, f.best_score, f.static_eval)]
              ELSE s
        s2 == [s1 EXCEPT !.tt = tt_store(@, key(f.pos), f.best_score, f.best_move,
                                         f.depth, f.ply, f.tt_flag)]
    IN  return_value(set_top([s2 EXCEPT !.ended = <<f>>], f), f.best_score)

\* ThreadData::get_root_move_mut: the place of the root move of a move
root_move_idx(root_moves, mv) ==
    IF \E i \in 1 .. Len(root_moves) : root_moves[i].pv[1] = mv
    THEN CHOOSE i \in 1 .. Len(root_moves) :
            /\ root_moves[i].pv[1] = mv
            /\ \A j \in 1 .. (i - 1) : root_moves[j].pv[1] # mv
    ELSE None

\* variant: a root move that does not improve keeps its score
root_move_update_keep_score(root_move, f, score, seldepth) ==
    IF f.move_count = 1 \/ score > f.alpha
    THEN [score |-> score, seldepth |-> seldepth, pv |-> update_pv(f.mv, f.child_pv)]
    ELSE root_move

\* the root move of a move tried at the root, after the move's score is known
root_move_update(root_move, f, score, seldepth) ==
    IF f.move_count = 1 \/ score > f.alpha
    THEN [score |-> score, seldepth |-> seldepth, pv |-> update_pv(f.mv, f.child_pv)]
    ELSE [root_move EXCEPT !.score = -SCORE_INF]

\* the same with the test on the stop left out
after_move_stop_unseen(s, score) ==
    LET f == frame_top(s)
        s1 == [s EXCEPT !.thread.key_history = SubSeq(@, 1, Len(@) - 1)]
        idx == root_move_idx(s.thread.root_moves, f.mv)
        s2 == IF f.nt = "Root"
              THEN [s1 EXCEPT !.thread.root_moves[idx] =
                        root_move_update(@, f, score, s.thread.seldepth)]
              ELSE s1
        raised == score > f.alpha
        f1 == [f EXCEPT !.pc = "loop",
                        !.tried = Append(@, [mv |-> f.mv, score |-> score]),
                        !.best_score = max(@, score),
                        !.alpha = IF raised THEN score ELSE @,
                        !.best_move = IF raised THEN f.mv ELSE @,
                        !.pv = IF raised /\ f.nt # "NonPv"
                               THEN update_pv(f.mv, f.child_pv) ELSE @,
                        !.tt_flag = IF score >= f.beta THEN "LowerBound"
                                    ELSE IF raised THEN "Exact" ELSE @]
    IN  IF f.nt = "Root" /\ idx = None THEN panic(s1)
        ELSE IF score >= f.beta THEN node_end(s2, f1)
        ELSE set_top(s2, f1)

\* variant: a stopped search returns before the key of the move is popped
after_move_stop_before_pop(s, score) ==
    LET f == frame_top(s)
        s1 == [s EXCEPT !.thread.key_history = SubSeq(@, 1, Len(@) - 1)]
        idx == root_move_idx(s.thread.root_moves, f.mv)
        s2 == IF f.nt = "Root"
              THEN [s1 EXCEPT !.thread.root_moves[idx] =
                        root_move_update(@, f, score, s.thread.seldepth)]
              ELSE s1
        raised == score > f.alpha
        f1 == [f EXCEPT !.pc = "loop",
                        !.tried = Append(@, [mv |-> f.mv, score |-> score]),
                        !.best_score = max(@, score),
                        !.alpha = IF raised THEN score ELSE @,
                        !.best_move = IF raised THEN f.mv ELSE @,
                        !.pv = IF raised /\ f.nt # "NonPv"
                               THEN update_pv(f.mv, f.child_pv) ELSE @,
                        !.tt_flag = IF score >= f.beta THEN "LowerBound"
                                    ELSE IF raised THEN "Exact" ELSE @]
    IN  IF s.stopped THEN return_value(s, 0)
        ELSE IF f.nt = "Root" /\ idx = None THEN panic(s1)
        ELSE IF score >= f.beta THEN node_end(s2, f1)
        ELSE set_top(s2, f1)

\* from thread.pop_move to the end of a turn of the move loop
after_move(s, score) ==
    LET f == frame_top(s)
        s1 == [s EXCEPT !.thread.key_history = SubSeq(@, 1, Len(@) - 1)]
        idx == root_move_idx(s.thread.root_moves, f.mv)
        s2 == IF f.nt = "Root"
              THEN [s1 EXCEPT !.thread.root_moves[idx] =
                        root_move_update(@, f, score, s.thread.seldepth)]
              ELSE s1
        raised == score > f.alpha
        f1 == [f EXCEPT !.pc = "loop",
                        !.tried = Append(@, [mv |-> f.mv, score |-> score]),
                        !.best_score = max(@, score),
                        !.alpha = IF raised THEN score ELSE @,
                        !.best_move = IF raised THEN f.mv ELSE @,
                        !.pv = IF raised /\ f.nt # "NonPv"
                               THEN update_pv(f.mv, f.child_pv) ELSE @,
                        !.tt_flag = IF score >= f.beta THEN "LowerBound"
                                    ELSE IF raised THEN "Exact" ELSE @]
    IN  IF s.stopped THEN return_value(s1, 0)
        ELSE IF f.nt = "Root" /\ idx = None THEN panic(s1)
        ELSE IF score >= f.beta THEN node_end(s2, f1)
        ELSE set_top(s2, f1)

\* a call of search on the child of the move of the running call
call_child(s, nt, depth, alpha, beta, kind) ==
    LET f == frame_top(s)
        f1 == [f EXCEPT !.pc = "wait", !.call = kind]
    IN  call(set_top(s, f1),
             Frame(nt, f.new_pos, depth, f.ply + 1, alpha, beta, f.child_pv))

\* the full-window search of a PV node, or the end of the turn
pv_search(s, score) ==
    LET f == frame_top(s)
    IN  IF f.nt # "NonPv" /\ (f.move_count = 1 \/ score > f.alpha)
        THEN call_child(s, "Pv", f.depth - 1, -f.beta, -f.alpha, "pv")
        ELSE after_move(s, score)

\* the first search of a child that does not end the game
first_search(s) ==
    LET f == frame_top(s)
        new_depth == f.depth - 1
        r == lmr_reduction(f.depth - 1, min(f.move_count, LMR_TABLE_MOVES) - 1)
        reduced == min(max(new_depth - r, 1), new_depth - 1)
    IN  IF f.depth >= 2 /\ f.move_count >= 5 + (IF f.nt = "Root" THEN 2 ELSE 0)
        THEN call_child(set_top(s, [f EXCEPT !.reduced = reduced]),
                        "NonPv", reduced, (-f.alpha) - 1, -f.alpha, "lmr")
        ELSE IF f.nt = "NonPv" \/ f.move_count > 1
        THEN call_child(s, "NonPv", new_depth, (-f.alpha) - 1, -f.alpha, "zw")
        ELSE pv_search(s, 0)

\* variant: a Pv node too returns on an entry that allows it
search_enter_cut_in_pv(s, hard) ==
    LET f == frame_top(s)
        s1 == [s EXCEPT !.thread.nodes = @ + 1]
        s2 == IF f.nt # "NonPv"
              THEN [s1 EXCEPT !.thread.seldepth = max(@, f.ply + 1)]
              ELSE s1
        tt_entry == tt_probe(s.tt, key(f.pos), f.ply).entry
        eval == static_eval(f.pos) + correction(s.thread.corrhist, f.pos)
    IN  IF s.stopped THEN return_value(s, 0)
        ELSE IF f.nt # "Root" /\ s.thread.id = 0 /\ s.thread.root_depth > 1 /\ hard
            THEN return_value([s EXCEPT !.stopped = TRUE], 0)
        ELSE IF f.depth <= 0 THEN return_value(s1, eval)
        ELSE IF f.nt = "NonPv" /\ tt_entry.depth >= f.depth /\ tt_entry.flag = "None"
            THEN panic(s2)
        ELSE IF /\ f.nt # "Root"
                /\ tt_entry.depth >= f.depth
                /\ \/ tt_entry.flag = "UpperBound" /\ tt_entry.score <= f.alpha
                   \/ tt_entry.flag = "LowerBound" /\ tt_entry.score >= f.beta
                   \/ tt_entry.flag = "Exact"
            THEN return_value(s2, tt_entry.score)
        ELSE IF f.nt = "NonPv" /\ f.depth <= 6 /\ eval - (100 * f.depth + 100) >= f.beta
            THEN return_value(s2, eval)
        ELSE set_top(s2, [f EXCEPT !.pc = "loop",
                                   !.static_eval = eval,
                                   !.mp = movepicker_new(tt_entry.mv, KillerTableDefault,
                                                         None)])

\* variant: the hard stop is consulted in the first iteration too
search_enter_stop_at_depth_1(s, hard) ==
    LET f == frame_top(s)
        s1 == [s EXCEPT !.thread.nodes = @ + 1]
        s2 == IF f.nt # "NonPv"
              THEN [s1 EXCEPT !.thread.seldepth = max(@, f.ply + 1)]
              ELSE s1
        tt_entry == tt_probe(s.tt, key(f.pos), f.ply).entry
        eval == static_eval(f.pos) + correction(s.thread.corrhist, f.pos)
    IN  IF s.stopped THEN return_value(s, 0)
        ELSE IF f.nt # "Root" /\ s.thread.id = 0 /\ hard
            THEN return_value([s EXCEPT !.stopped = TRUE], 0)
        ELSE IF f.depth <= 0 THEN return_value(s1, eval)
        ELSE IF f.nt = "NonPv" /\ tt_entry.depth >= f.depth /\ tt_entry.flag = "None"
            THEN panic(s2)
        ELSE IF /\ f.nt = "NonPv"
                /\ tt_entry.depth >= f.depth
                /\ \/ tt_entry.flag = "UpperBound" /\ tt_entry.score <= f.alpha
                   \/ tt_entry.flag = "LowerBound" /\ tt_entry.score >= f.beta
                   \/ tt_entry.flag = "Exact"
            THEN return_value(s2, tt_entry.score)
        ELSE IF f.nt = "NonPv" /\ f.depth <= 6 /\ eval - (100 * f.depth + 100) >= f.beta
            THEN return_value(s2, eval)
        ELSE set_top(s2, [f EXCEPT !.pc = "loop",
                                   !.static_eval = eval,
                                   !.mp = movepicker_new(tt_entry.mv, KillerTableDefault,
                                                         None)])

\* search from its entry to the move loop
search_enter(s, hard) ==
    LET f == frame_top(s)
        s1 == [s EXCEPT !.thread.nodes = @ + 1]
        s2 == IF f.nt # "NonPv"
              THEN [s1 EXCEPT !.thread.seldepth = max(@, f.ply + 1)]
              ELSE s1
        tt_entry == tt_probe(s.tt, key(f.pos), f.ply).entry
        eval == static_eval(f.pos) + correction(s.thread.corrhist, f.pos)
    IN  IF s.stopped THEN return_value(s, 0)
        ELSE IF f.nt # "Root" /\ s.thread.id = 0 /\ s.thread.root_depth > 1 /\ hard
            THEN return_value([s EXCEPT !.stopped = TRUE], 0)
        ELSE IF f.depth <= 0 THEN return_value(s1, eval)
        ELSE IF f.nt = "NonPv" /\ tt_entry.depth >= f.depth /\ tt_entry.flag = "None"
            THEN panic(s2)
        ELSE IF /\ f.nt = "NonPv"
                /\ tt_entry.depth >= f.depth
                /\ \/ tt_entry.flag = "UpperBound" /\ tt_entry.score <= f.alpha
                   \/ tt_entry.flag = "LowerBound" /\ tt_entry.score >= f.beta
                   \/ tt_entry.flag = "Exact"
            THEN return_value(s2, tt_entry.score)
        ELSE IF f.nt = "NonPv" /\ f.depth <= 6 /\ eval - (100 * f.depth + 100) >= f.beta
            THEN return_value(s2, eval)
        ELSE set_top(s2, [f EXCEPT !.pc = "loop",
                                   !.static_eval = eval,
                                   !.mp = movepicker_new(tt_entry.mv, KillerTableDefault,
                                                         None)])

\* a turn of the move loop up to the first search of the child
search_move(s) ==
    LET f == frame_top(s)
        recurse(s1, t) == IF t.terminal THEN after_move(s1, t.score) ELSE first_search(s1)
        moved(s1, mv) == recurse(s1, terminal_score(s1.thread.key_history, f.pos, mv, f.ply))
        turn(r) ==
            IF r.mv = None THEN node_end(s, [f EXCEPT !.mp = r.mp])
            ELSE moved(set_top([s EXCEPT !.thread.key_history = Append(@, key(f.pos))],
                               [f EXCEPT !.mp = r.mp,
                                         !.move_count = @ + 1,
                                         !.mv = r.mv,
                                         !.new_pos = apply_move(f.pos, r.mv),
                                         !.child_pv = IF f.nt # "NonPv" THEN <<>> ELSE @]),
                       r.mv)
    IN  turn(movepicker_next(f.mp, f.pos, HistoryNew))

\* the running call has the value of the search it has made
search_return(s) ==
    LET f == frame_top(s)
        score == -s.ret
    IN  IF f.call = "lmr" /\ score > f.alpha /\ f.reduced < f.depth - 1
        THEN call_child(s, "NonPv", f.depth - 1, (-f.alpha) - 1, -f.alpha, "lmr_full")
        ELSE IF f.call = "pv" THEN after_move(s, score)
        ELSE pv_search(s, score)

\* sort_by of the root moves, the greater score first: a stable sort, which
\* puts a root move after those of a greater score and after those of the
\* same score that were before it
sort_root_moves(root_moves) ==
    LET n == Len(root_moves)
        place == [i \in 1 .. n |->
                    1 + Cardinality({j \in 1 .. n :
                            \/ root_moves[j].score > root_moves[i].score
                            \/ j < i /\ root_moves[j].score = root_moves[i].score})]
    IN  [k \in 1 .. n |-> root_moves[CHOOSE i \in 1 .. n : place[i] = k]]

\* the score of an info line
score_text(score) ==
    IF abs(score) >= SCORE_MAX_MATE
    THEN [unit |-> "mate",
          value |-> IF score > 0 THEN div_trunc((SCORE_MATE - score) + 1, 2)
                    ELSE div_trunc(-(SCORE_MATE + score), 2)]
    ELSE [unit |-> "cp", value |-> score]

\* report
report(s, depth) ==
    LET root_move == s.thread.root_moves[1]
    IN  IF root_move.score = -SCORE_INF THEN panic(s)
        ELSE [s EXCEPT !.lines = Append(@, [line     |-> "info",
                                            depth    |-> depth,
                                            seldepth |-> root_move.seldepth,
                                            nodes    |-> s.thread.nodes,
                                            score    |-> score_text(root_move.score),
                                            pv       |-> root_move.pv])]

\* final_report
final_report(s, depth) ==
    LET s1 == report(s, depth)
    IN  IF s1.stage = "panic" THEN s1
        ELSE [s1 EXCEPT !.lines = Append(@, [line |-> "bestmove",
                                             mv   |-> s.thread.root_moves[1].pv[1]]),
                        !.stage = "done"]

\* a turn of the loop of run_search up to the call of search
start_iteration(s) ==
    call([s EXCEPT !.thread.seldepth = 0, !.stage = "search"],
         Frame("Root", s.root_pos, s.thread.root_depth, 0, -SCORE_INF, SCORE_INF, <<>>))

\* the same with the report made before the depth is compared with max_depth
iteration_end_report_first(s, soft) ==
    LET s1 == [s EXCEPT !.thread.root_moves = sort_root_moves(@)]
        s2 == report(s1, s.thread.root_depth)
    IN  IF s2.stage = "panic" THEN s2
        ELSE IF s.thread.root_depth >= s.thread.max_depth THEN [s2 EXCEPT !.stage = "final"]
        ELSE IF s.thread.id = 0 /\ soft THEN [s2 EXCEPT !.stopped = TRUE, !.stage = "final"]
        ELSE start_iteration([s2 EXCEPT !.thread.root_depth = @ + 1])

\* the loop of run_search from the return of search to its next call
iteration_end(s, soft) ==
    LET s1 == [s EXCEPT !.thread.root_moves = sort_root_moves(@)]
        s2 == report(s1, s.thread.root_depth)
    IN  IF s.thread.root_depth >= s.thread.max_depth THEN [s1 EXCEPT !.stage = "final"]
        ELSE IF s.thread.id = 0 /\ soft THEN [s1 EXCEPT !.stopped = TRUE, !.stage = "final"]
        ELSE IF s.thread.id # 0 THEN start_iteration([s1 EXCEPT !.thread.root_depth = @ + 1])
        ELSE IF s2.stage = "panic" THEN s2
        ELSE start_iteration([s2 EXCEPT !.thread.root_depth = @ + 1])

\* ThreadData::new(0) after reset, and the start of run_search
thread_start(p, key_history, max_depth) ==
    [id          |-> 0,
     key_history |-> key_history,
     root_depth  |-> 1,
     max_depth   |-> max_depth,
     seldepth    |-> 0,
     nodes       |-> 0,
     root_moves  |-> LET root_moves == generated_buffer(p)
                     IN  [i \in 1 .. Len(root_moves) |-> root_move_new(root_moves[i])],
     corrhist    |-> CorrectionHistoryNew]

\* start_search, up to the first call of search
start_search(p, key_history, max_depth) ==
    start_iteration([stage    |-> "search",
                     root_pos |-> p,
                     stopped  |-> FALSE,
                     thread   |-> thread_start(p, key_history, max_depth),
                     tt       |-> TranspositionTableNew,
                     frames   |-> <<>>,
                     ended    |-> <<>>,
                     ret      |-> 0,
                     lines    |-> <<>>])

(***************************************************************************)
(* A search of a board of walls, stopped where the limits please           *)
(***************************************************************************)
\* the largest max_depth given to start_search
MaxDepth == 4

\* the largest number of empty squares of the root of a search
MaxRootEmpty == 3

SearchRoots == {WallBoard(empty) : empty \in 1 .. MaxRootEmpty}

InitSearch ==
    /\ pos \in SearchRoots
    /\ \E max_depth \in 1 .. MaxDepth : inp = [key_history |-> <<>>, max_depth |-> max_depth]
    /\ out = Idle

StartSearch ==
    /\ out.stage = "idle"
    /\ out' = start_search(pos, inp.key_history, inp.max_depth)
    /\ UNCHANGED <<pos, inp>>

SearchEnter ==
    /\ out.stage = "search"
    /\ frame_top(out).pc = "entry"
    /\ \E hard \in should_stop_hard(out.thread.nodes) : out' = search_enter(out, hard)
    /\ UNCHANGED <<pos, inp>>

SearchMove ==
    /\ out.stage = "search"
    /\ frame_top(out).pc = "loop"
    /\ out' = search_move(out)
    /\ UNCHANGED <<pos, inp>>

SearchReturn ==
    /\ out.stage = "search"
    /\ frame_top(out).pc = "wait"
    /\ out' = search_return(out)
    /\ UNCHANGED <<pos, inp>>

IterationEnd ==
    /\ out.stage = "iteration_end"
    /\ \E soft \in should_stop_soft(out.thread.nodes) : out' = iteration_end(out, soft)
    /\ UNCHANGED <<pos, inp>>

FinalReport ==
    /\ out.stage = "final"
    /\ out' = final_report(out, out.thread.root_depth)
    /\ UNCHANGED <<pos, inp>>

NextSearch ==
    StartSearch \/ SearchEnter \/ SearchMove \/ SearchReturn \/ IterationEnd \/ FinalReport

SpecSearch == InitSearch /\ [][NextSearch]_vars

\* run_search has not returned
unfinished(s) == s.stage \notin {"done", "panic"}

\* run_search is scheduled until it returns, as no step of it waits for
\* anything: this is weak fairness of NextSearch, written with the state
\* predicate to which ENABLED <<NextSearch>>_vars amounts, as some step can be
\* taken in every state in which run_search has not returned
SpecSearchFair ==
    SpecSearch /\ ([]<>(~unfinished(out)) \/ []<><<NextSearch>>_vars)

\* start_search has been called and run_search has not returned
searching(s) == s.stage \in {"search", "iteration_end", "final"}

\* the root moves, whatever their order
root_move_set(s) == {s.thread.root_moves[i] : i \in 1 .. Len(s.thread.root_moves)}

\* a step of a search that leaves the tables, the root moves and the node
\* count as they are, and in which a call of search that returns, returns 0
quiet_step(s, t) ==
    /\ t.tt = s.tt
    /\ t.thread.corrhist = s.thread.corrhist
    /\ t.thread.nodes = s.thread.nodes
    /\ root_move_set(t) = root_move_set(s)
    /\ Len(t.frames) < Len(s.frames) => t.ret = 0

\* a step of a stopped search keeps it stopped and is quiet, and so is the
\* step of search that stops it
StoppedStep ==
    searching(out) =>
        /\ out.stopped => out'.stopped /\ quiet_step(out, out')
        /\ (out.stage = "search" /\ ~out.stopped /\ out'.stopped)
              => quiet_step(out, out') /\ Len(out'.frames) < Len(out.frames)

\* C16: once the stopped flag is set it stays set to the end of the search,
\* and from the step that sets it on, every call of search in progress and
\* every call made later returns 0, and no step stores in the transposition
\* table, updates the correction history, changes the score or the PV of a
\* root move, or counts a node.
C16_StoppedIsOneShot == [][StoppedStep]_vars

\* a stopped search three calls deep with entries in its table, in which a
\* call of search made after the stop is at its entry
C16_Witness ==
    /\ out.stage = "search"
    /\ out.stopped
    /\ Len(out.frames) >= 3
    /\ frame_top(out).pc = "entry"
    /\ out.ret = 0
    /\ out.tt # TranspositionTableNew
    /\ out.thread.nodes > 0

\* C17: when the search has been stopped during the iteration at root_depth
\* d, the loop of run_search ends after that iteration: it goes to the final
\* report with root_depth = d, whatever check_stop_soft answers.
C17_NoIterationAfterStop ==
    [][(out.stage = "iteration_end" /\ out.stopped)
          => /\ out'.stage = "final"
             /\ out'.thread.root_depth = out.thread.root_depth]_vars

\* the lines printed so far: info lines of depths 1, 2, 3, ... and, once
\* run_search has returned, one bestmove line, the last, with the first move
\* of the PV of the info line before it
OutputOK ==
    out.stage # "idle" =>
        LET n == Len(out.lines)
            infos == IF out.stage = "done" THEN n - 1 ELSE n
        IN  /\ out.stage # "panic"
            /\ \A i \in 1 .. infos :
                  /\ out.lines[i].line = "info"
                  /\ out.lines[i].depth = i
                  /\ Len(out.lines[i].pv) >= 1
            /\ out.stage = "done" =>
                  /\ infos >= 1
                  /\ out.lines[n].line = "bestmove"
                  /\ out.lines[n].mv = out.lines[infos].pv[1]

\* C18: a search on the main thread of a position with a legal move ends,
\* and what it prints is one or more info lines of depths 1, 2, 3, ... with
\* no depth twice, then one bestmove line, the last line, which names the
\* first move of the PV of the last info line.
C18_SearchOutput == []OutputOK /\ <>(out.stage = "done")

\* a search that was stopped in its second iteration and was given max_depth
\* 4 has printed the info lines of depths 1 to 4 and its bestmove line
C18_Witness ==
    /\ out.stage = "done"
    /\ out.stopped
    /\ inp.max_depth = 4
    /\ Len(out.lines) = 5
    /\ out.lines[4].depth = 4
    /\ out.lines[5].line = "bestmove"
    /\ is_legal(pos, out.lines[5].mv)

(***************************************************************************)
(* main.rs: placements played from startpos on the first files of rank 1,  *)
(* each followed by the text of the position                               *)
(***************************************************************************)
\* the number of files of rank 1 that are played on
OpeningFiles == 4

\* the number of moves played
MaxOpeningPly == 4

\* the texts of the placements on those squares: a1, Sa1, Ca1, b1, ...
OpeningTexts ==
    {mark \o <<Files[f], "1">> : mark \in {<<>>, <<"S">>, <<"C">>}, f \in 1 .. OpeningFiles}

InitOpening == pos = startpos /\ inp = <<>> /\ out = Idle

\* a step of main: the move is applied and the text of the position is taken
\* (the text is parsed back and compared with the position)
PlayOpening ==
    /\ Len(inp) < MaxOpeningPly
    /\ \E text \in OpeningTexts :
          LET parsed == move_from_str(text)
          IN  /\ parsed.ok
              /\ is_legal(pos, parsed.mv)
              /\ pos' = apply_move(pos, parsed.mv)
              /\ inp' = Append(inp, text)
    /\ out' = [stage |-> "printed", tps |-> tps(pos'), parsed |-> from_str(tps(pos'))]

NextOpening == PlayOpening

SpecOpening == InitOpening /\ [][NextOpening]_vars

\* a1, b1, Sc1, Cd1
S1Moves == <<<<"a", "1">>, <<"b", "1">>, <<"S", "c", "1">>, <<"C", "d", "1">>>>

\* x6/x6/x6/x6/x6/
S1EmptyRanks ==
    <<"x", "6", "/", "x", "6", "/", "x", "6", "/", "x", "6", "/", "x", "6", "/">>

\* C21 as the spec states it: after a1, b1, Sc1, Cd1 the text of the position
\* is x6/x6/x6/x6/x6/2,1,1S,1C,x2 2 3, P1 holds 28 flats and no Capstone, and
\* P2 holds 29 flats and a Capstone.
C21_ScenarioAsStated ==
    inp = S1Moves =>
        /\ out.tps = S1EmptyRanks \o <<"2", ",", "1", ",", "1", "S", ",", "1", "C", ",",
                                       "x", "2", " ", "2", " ", "3">>
        /\ pos.flats_in_hand[P1] = 28 /\ pos.caps_in_hand[P1] = 0
        /\ pos.flats_in_hand[P2] = 29 /\ pos.caps_in_hand[P2] = 1

\* C21: after a1, b1, Sc1, Cd1 the text of the position is
\* x6/x6/x6/x6/x6/2,1,1S,2C,x2 1 3 (the Capstone is P2's, who played the
\* fourth move, and P1 is to move), P1 holds 28 flats and its Capstone, P2
\* holds 29 flats and no Capstone, and the text parses back to the position.
C21_ScenarioS1 ==
    inp = S1Moves =>
        /\ out.tps = S1EmptyRanks \o <<"2", ",", "1", ",", "1", "S", ",", "2", "C", ",",
                                       "x", "2", " ", "1", " ", "3">>
        /\ pos.flats_in_hand[P1] = 28 /\ pos.caps_in_hand[P1] = 1
        /\ pos.flats_in_hand[P2] = 29 /\ pos.caps_in_hand[P2] = 0
        /\ out.parsed.ok /\ out.parsed.pos = pos

\* the four moves of the scenario have been played
C21_Witness == inp = S1Moves /\ out.stage = "printed" /\ pos.ply = 4

(***************************************************************************)
(* bitboard.rs: Bitboard::shift applied to sets of a few squares           *)
(***************************************************************************)
\* the largest number of squares of a set that is shifted
MaxShiftBits == 2

\* the sets of at most n squares
RECURSIVE sets_up_to(_)
sets_up_to(n) ==
    IF n = 0 THEN {{}}
    ELSE LET less == sets_up_to(n - 1)
         IN  less \cup {b \cup {sq} : b \in less, sq \in Squares}

InitShift ==
    /\ pos = startpos
    /\ \E b \in sets_up_to(MaxShiftBits) : \E dir \in Directions :
          inp = [b |-> b, dir |-> dir]
    /\ out = Idle

ApplyShift ==
    /\ out.stage = "idle"
    /\ out' = [stage |-> "shifted", ret |-> bitboard_shift(inp.b, inp.dir)]
    /\ UNCHANGED <<pos, inp>>

NextShift == ApplyShift

SpecShift == InitShift /\ [][NextShift]_vars

\* the neighbours, in the direction, of the squares of the set that have one
neighbours(b, dir) ==
    {shift_checked(sq, dir) : sq \in {s \in b : shift_checked(s, dir) # None}}

\* C22: b.shift(dir) is exactly the set of the squares sq.shift_checked(dir)
\* of the squares sq of b that have a neighbour in that direction: no square
\* of file f moves to file a of the next rank by a shift to the right, and no
\* square of file a moves to file f of the previous rank by a shift to the left.
C22_ShiftMasksEdges ==
    out.stage = "shifted" => out.ret = neighbours(inp.b, inp.dir)

(***************************************************************************)
(* history.rs, correction.rs: one entry under a sequence of updates        *)
(***************************************************************************)
\* the bonuses given to an entry of the history are those at most this far
\* from 0, from the largest bonus and from its negative (on both sides: some
\* are clamped); an entry of the correction history is given every bonus up
\* to this far beyond the largest
MaxBonusOffset == 2

EntryKinds == {"history", "correction"}

entry_limit(kind) == IF kind = "history" THEN HISTORY_LIMIT ELSE CORRECTION_LIMIT

Bonuses(kind) ==
    LET max_bonus == entry_limit(kind) \div 4
    IN  IF kind = "history"
        THEN {centre + d : centre \in {-max_bonus, 0, max_bonus},
                           d \in (-MaxBonusOffset) .. MaxBonusOffset}
        ELSE (-(max_bonus + MaxBonusOffset)) .. (max_bonus + MaxBonusOffset)

InitEntry ==
    /\ pos = startpos
    /\ inp \in EntryKinds
    /\ out = [stage |-> "entry", value |-> 0, updates |-> 0]

\* History::update and CorrectionHistory::update on one entry: the bonus is
\* clamped and the entry updated
UpdateEntry ==
    /\ \E bonus \in Bonuses(inp) :
          out' = [stage   |-> "entry",
                  value   |-> IF inp = "history"
                              THEN history_entry_update(
                                       out.value,
                                       clamp(bonus, -HISTORY_MAX_BONUS, HISTORY_MAX_BONUS))
                              ELSE correction_entry_update(
                                       out.value,
                                       clamp(bonus, -CORRECTION_MAX_BONUS, CORRECTION_MAX_BONUS)),
                  updates |-> IF out.updates = 0 THEN 1 ELSE out.updates]
    /\ UNCHANGED <<pos, inp>>

NextEntry == UpdateEntry

SpecEntry == InitEntry /\ [][NextEntry]_vars

\* C23 as the spec states it: after any sequence of updates from 0 with the
\* bonuses clamped to a quarter of LIMIT, the value stored is less than LIMIT
\* in absolute value.
C23_EntryBelowLimit == abs(out.value) < entry_limit(inp)

\* C23: after any sequence of updates from 0 with the bonuses clamped to a
\* quarter of LIMIT, the value stored is at most LIMIT in absolute value
\* (LIMIT itself is reached, by bonuses of 1, and is then kept).
C23_EntryWithinLimit == abs(out.value) <= entry_limit(inp)

\* an entry of the history has reached LIMIT
C23_Witness == inp = "history" /\ out.updates = 1 /\ out.value = HISTORY_LIMIT

(***************************************************************************)
(* movepick.rs: a killer table under a sequence of pushes                  *)
(***************************************************************************)
\* the number of squares whose moves are pushed
MaxKillerSquares == 4

KillerMoves ==
    {placement(Flat, sq) : sq \in 0 .. (MaxKillerSquares - 1)}
        \cup {spread(sq, Up, 32) : sq \in 0 .. (MaxKillerSquares - 1)}

InitKiller ==
    /\ pos = startpos
    /\ inp = None
    /\ out = [stage |-> "new", killers |-> KillerTableDefault]

\* KillerTable::push; the move and the table before it are kept
PushKiller ==
    /\ \E mv \in KillerMoves :
          /\ inp' = [mv |-> mv, before |-> out.killers]
          /\ out' = [stage |-> "pushed", killers |-> killer_push(out.killers, mv)]
    /\ UNCHANGED pos

NextKiller == PushKiller

SpecKiller == InitKiller /\ [][NextKiller]_vars

\* C24: after push(mv) slot 0 holds mv; when slot 0 held another move (or
\* none) before, that one is now in slot 1, and when slot 0 held mv the table
\* is as it was.  After any pushes from the empty table the two slots hold
\* different moves.
C24_KillerPush ==
    out.stage = "pushed" =>
        /\ out.killers[1] = inp.mv
        /\ inp.before[1] # inp.mv => out.killers[2] = inp.before[1]
        /\ inp.before[1] = inp.mv => out.killers = inp.before
        /\ out.killers[1] # out.killers[2]

\* the move of slot 1 has been pushed again: the two slots have changed places
C24_Witness ==
    /\ out.stage = "pushed"
    /\ inp.before[1] # None /\ inp.before[2] = inp.mv
    /\ out.killers = <<inp.before[2], inp.before[1]>>

(***************************************************************************)
(* tei.rs: the `position` command                                          *)
(***************************************************************************)
StartposWord == <<"s", "t", "a", "r", "t", "p", "o", "s">>

TpsWord == <<"t", "p", "s">>

MovesWord == <<"m", "o", "v", "e", "s">>

\* args.iter().position(|&s| s == "moves").unwrap_or(args.len())
moves_position(args) ==
    IF \E i \in 1 .. Len(args) : args[i] = MovesWord
    THEN (CHOOSE i \in 1 .. Len(args) :
              args[i] = MovesWord /\ \A j \in 1 .. (i - 1) : args[j] # MovesWord) - 1
    ELSE Len(args)

\* the handler after a command: its position, whether a line was written to
\* stderr, and whether an assertion of apply_move has failed
Handled(p, reported) == [pos |-> p, reported |-> reported, panicked |-> FALSE]

\* the loop over the texts after `moves`
RECURSIVE position_moves(_, _, _)
position_moves(p, args, i) ==
    LET play(parsed) ==
            IF ~parsed.ok THEN Handled(p, TRUE)
            ELSE IF ~apply_move_pre(p, parsed.mv)
                THEN [pos |-> p, reported |-> FALSE, panicked |-> TRUE]
            ELSE position_moves(apply_move(p, parsed.mv), args, i + 1)
    IN  IF i > Len(args) THEN Handled(p, FALSE) ELSE play(move_from_str(args[i]))

\* the rest of handle_position once the position type has been handled
position_rest(p, args, next) ==
    IF next >= Len(args) \/ args[next + 1] # MovesWord THEN Handled(p, FALSE)
    ELSE position_moves(p, args, next + 2)

\* TeiHandler::handle_position
handle_position(p, all_args) ==
    LET pos_type == Head(all_args)
        args == Tail(all_args)
        from_tps(count, parsed) ==
            IF count = 0 THEN Handled(p, TRUE)
            ELSE IF ~parsed.ok THEN Handled(p, TRUE)
            ELSE position_rest(parsed.pos, args, count)
    IN  IF all_args = <<>> THEN Handled(p, FALSE)
        ELSE IF pos_type = StartposWord THEN position_rest(startpos, args, 0)
        ELSE IF pos_type = TpsWord
            THEN from_tps(moves_position(args),
                          from_tps_parts(SubSeq(args, 1, moves_position(args))))
        ELSE Handled(p, TRUE)

(***************************************************************************)
(* The handler under a sequence of `position` commands                     *)
(***************************************************************************)
\* the largest number of texts after `moves`
MaxCommandMoves == 2

\* a1, c1, and a text that is no move
MoveTokens == {<<"a", "1">>, <<"c", "1">>, <<"z", "z">>}

\* x6/x6/x6/x6/x6/2,1,x4 and a board of two ranks
TpsBoards == {S1EmptyRanks \o <<"2", ",", "1", ",", "x", "4">>,
              <<"x", "6", "/", "x", "6">>}

RECURSIVE token_lists(_)
token_lists(n) ==
    IF n = 0 THEN {<<>>}
    ELSE LET less == token_lists(n - 1)
         IN  less \cup {Append(l, t) : l \in less, t \in MoveTokens}

PositionCommands ==
    {<<>>} \cup
    {head \o tail :
        head \in {<<StartposWord>>, <<TpsWord>>, <<<<"f", "e", "n">>>>}
                     \cup {<<TpsWord, board, <<"1">>, <<"2">>>> : board \in TpsBoards},
        tail \in {<<>>} \cup {<<MovesWord>> \o l : l \in token_lists(MaxCommandMoves)}}

InitTei ==
    /\ pos = startpos
    /\ inp = <<>>
    /\ out = [stage |-> "ready", reported |-> FALSE, before |-> startpos]

\* a `position` line read by TeiHandler::run
HandlePosition ==
    /\ out.stage = "ready"
    /\ \E command \in PositionCommands :
          LET done(r) ==
                  /\ pos' = r.pos
                  /\ out' = [stage    |-> IF r.panicked THEN "panic" ELSE "ready",
                             reported |-> r.reported,
                             before   |-> pos]
          IN  done(handle_position(pos, command)) /\ inp' = command

NextTei == HandlePosition

SpecTei == InitTei /\ [][NextTei]_vars

\* C25: a `position` command that reports an error (an unknown position
\* type, a missing or malformed TPS, a malformed move in its list) leaves the
\* position of the handler as it was before the command, and the handler is
\* ready for the next command.
C25_ErrorLeavesPosition ==
    (out.stage = "ready" /\ out.reported) => pos = out.before

(***************************************************************************)
(* board.rs: Position::from_tps_parts on malformed board fields            *)
(***************************************************************************)

MaxOddRanks == 2

\* rank texts: full ranks, short ranks, long ranks, a blank square, an
\* illegal character, characters after the top marker
RankTexts ==
    { <<"x", "6">>,
      <<"x", "3", ",", "x", "3">>,
      <<"1", ",", "x", "5">>,
      <<"x", "4", ",", "2", "1", "C", ",", "1", "S">>,
      <<"x", "5">>,
      <<"1", ",", "2", ",", "1", ",", "2", ",", "1">>,
      <<"1", "2", "S">>,
      <<"x", "7">>,
      <<"x", "6", ",", "1">>,
      <<"x", "3", ",", "x", "4">>,
      <<"1", ",", ",", "x", "4">>,
      <<"1", "a", ",", "x", "5">>,
      <<"1", "S", "2", ",", "x", "5">>,
      <<"1", "C", "S", ",", "x", "5">> }

\* six rank texts of which at most MaxOddRanks are not x6
RECURSIVE rank_lists(_)
rank_lists(n) ==
    IF n = 0 THEN {[i \in 1..6 |-> <<"x", "6">>]}
    ELSE {[rs EXCEPT ![i] = t] : rs \in rank_lists(n - 1), i \in 1..6, t \in RankTexts}

RankLists == rank_lists(MaxOddRanks)

board_text(rs) == join([i \in 1..6 |-> rs[i]], "/")

InitTps ==
    /\ pos = startpos
    /\ \E rs \in RankLists : \E stm \in {"1", "2"} :
           inp = board_text(rs) \o <<" ", stm, " ", "1">>
    /\ out = Idle

ParseTps ==
    /\ out.stage = "idle"
    /\ out' = [stage |-> "parsed", ret |-> from_str(inp)]
    /\ UNCHANGED <<pos, inp>>

NextTps == ParseTps

SpecTps == InitTps /\ [][NextTps]_vars

\* the number of files a rank text describes: xN is N files, every other
\* group one
group_files(g) ==
    IF g # <<>> /\ Head(g) = "x" /\ Tail(g) # <<>>
    THEN parse_uint(Tail(g), 99) ELSE 1

RECURSIVE files_described(_)
files_described(groups) ==
    IF groups = <<>> THEN 0
    ELSE group_files(Head(groups)) + files_described(Tail(groups))

board_field(text) == Head(split_ascii_whitespace(text))

wrong_file_count(text) ==
    \E i \in 1..6 :
        files_described(split(split(board_field(text), "/")[i], ",")) # 6

blank_square(text) ==
    \E i \in 1..6 :
        LET groups == split(split(board_field(text), "/")[i], ",")
        IN  \E k \in 1..Len(groups) : groups[k] = <<>>

illegal_char(text) ==
    \E k \in 1..Len(board_field(text)) :
        board_field(text)[k] \notin {"1", "2", "F", "S", "C", "x", "/", ","}
                                    \cup {"0", "3", "4", "5", "6", "7", "8", "9"}

chars_after_top(text) ==
    \E k \in 1..(Len(board_field(text)) - 1) :
        /\ board_field(text)[k] \in {"S", "C"}
        /\ board_field(text)[k + 1] \notin {",", "/"}

\* C26: from_tps_parts returns an error, and no position, for a board field
\* with a rank of more or fewer than six files, a blank square, an illegal
\* character in a stack or characters after the S/C top marker
C26_MalformedTpsRejected ==
    (/\ out.stage = "parsed"
     /\ \/ wrong_file_count(inp)
        \/ blank_square(inp)
        \/ illegal_char(inp)
        \/ chars_after_top(inp))
    => ~out.ret.ok

(***************************************************************************)
(* takmove.rs: Move::from_str on spread texts, well formed and malformed   *)
(***************************************************************************)

MaxDropDigits == 7

MaxMixedDrops == 3

RECURSIVE digit_strings(_, _)
digit_strings(digits, n) ==
    IF n = 0 THEN {<<>>}
    ELSE LET shorter == digit_strings(digits, n - 1)
         IN  shorter \cup {Append(t, d) : t \in {u \in shorter : Len(u) = n - 1}, d \in digits}

\* the drop digits after the direction: short texts over good and bad
\* digits, long texts over 1 and 2, and runs of 6
DropTexts ==
    digit_strings({"0", "1", "2", "3", "6", "7"}, MaxMixedDrops)
    \cup digit_strings({"1", "2"}, MaxDropDigits)
    \cup digit_strings({"6"}, MaxDropDigits)

CountTexts == {<<>>} \cup {<<d>> : d \in {"1", "2", "3", "4", "5", "6", "7", "8", "9"}}

InitSpreadText ==
    /\ pos = startpos
    /\ \E count \in CountTexts : \E drops \in DropTexts :
           inp = count \o <<"c", "3", ">">> \o drops
    /\ out = Idle

ParseSpread ==
    /\ out.stage = "idle"
    /\ \E overflow_checks \in BOOLEAN :
           out' = [stage |-> "parsed", checks |-> overflow_checks,
                   res |-> move_from_str_build(inp, overflow_checks)]
    /\ UNCHANGED <<pos, inp>>

NextSpreadText == ParseSpread

SpecSpreadText == InitSpreadText /\ [][NextSpreadText]_vars

\* the count and the drop digits a spread text writes
written_count(text) == IF is_digit(Head(text)) THEN digit_value(Head(text)) ELSE 1

written_drops(text) ==
    LET from == IF is_digit(Head(text)) THEN 5 ELSE 4
    IN  [i \in 1 .. (Len(text) - from + 1) |-> digit_value(text[from + i - 1])]

RECURSIVE drops_total(_, _)
drops_total(drops, n) == IF n = 0 THEN 0 ELSE drops[n] + drops_total(drops, n - 1)

malformed_spread(text) ==
    LET drops == written_drops(text)
    IN  \/ written_count(text) \notin 1 .. 6
        \/ \E i \in 1 .. Len(drops) : drops[i] \notin 1 .. 6
        \/ Len(drops) > 6
        \/ drops_total(drops, Len(drops)) > written_count(text)

well_formed_spread(text) ==
    LET drops == written_drops(text)
    IN  /\ written_count(text) \in 1 .. 6
        /\ Len(drops) <= 6
        /\ \A i \in 1 .. Len(drops) : drops[i] \in 1 .. 6
        /\ Len(drops) > 0 => drops_total(drops, Len(drops)) = written_count(text)

\* the pattern bits of a spread that takes count pieces and drops them as
\* written: the lowest set bit is 6 - count, and each drop but the last
\* sets the bit that many places higher
encoded_bits(text) ==
    LET drops == written_drops(text)
    IN  {6 - written_count(text) + drops_total(drops, i) : i \in 0 .. (Len(drops) - 1)}
        \cup {6 - written_count(text)}

\* C27: Move::from_str never panics; it returns Err for a spread text with a
\* count of 7, 8 or 9, a drop digit outside 1..6, more than six drop digits
\* or drops that total more than the count; for a well-formed text it
\* returns the spread whose pattern encodes the written count and drops
C27_SpreadTextParsed ==
    out.stage = "parsed" =>
        /\ ~("panicked" \in DOMAIN out.res)
        /\ malformed_spread(inp) => ~out.res.ok
        /\ well_formed_spread(inp) =>
               /\ out.res.ok
               /\ is_spread(out.res.mv)
               /\ mv_sq(out.res.mv) = 14
               /\ mv_dir(out.res.mv) = Right
               /\ {i \in 0 .. 5 : Bit(mv_pattern(out.res.mv), i) = 1} = encoded_bits(inp)

(***************************************************************************)
(* search.rs: the root moves, the end of a node and the reduced depth      *)
(***************************************************************************)
\* a turn of the move loop of the root call ends without a stop
RootTurnEnds ==
    /\ out.stage = "search" /\ out'.stage = "search"
    /\ Len(out.frames) = 1 /\ Len(out'.frames) = 1
    /\ out.frames[1].nt = "Root"
    /\ out.frames[1].pc \in {"loop", "wait"}
    /\ Len(out'.frames[1].tried) = Len(out.frames[1].tried) + 1
    /\ ~out.stopped

RootMovesUpdated ==
    LET f == out.frames[1]
        g == out'.frames[1]
        t == g.tried[Len(g.tried)]
        before == out.thread.root_moves
        after == out'.thread.root_moves
        improved == Len(g.tried) = 1 \/ t.score > f.alpha
    IN  /\ Len(after) = Len(before)
        /\ \E i \in 1 .. Len(before) : before[i].pv[1] = t.mv
        /\ \A i \in 1 .. Len(before) :
               IF before[i].pv[1] # t.mv THEN after[i] = before[i]
               ELSE IF improved
               THEN after[i] = [score    |-> t.score,
                                seldepth |-> out.thread.seldepth,
                                pv       |-> <<t.mv>> \o g.child_pv]
               ELSE after[i].score = -SCORE_INF /\ after[i].pv = before[i].pv

\* C28: when the turn of a root move ends in a Root call that is not
\* stopped, the move's RootMove gets the score, the current seldepth and
\* the PV (the move, then the child PV) if it is the first move tried in
\* this call or its score is greater than alpha at that moment; otherwise
\* its score becomes -SCORE_INF and its PV is kept; the other root moves
\* keep what they had
C28_RootMoveBookkeeping == [][RootTurnEnds => RootMovesUpdated]_vars

\* at depth 2 or more a second root move has failed low: its score is
\* -SCORE_INF and its PV is that of the depth before
C28_Witness ==
    /\ out.stage = "search"
    /\ out.thread.root_depth >= 2
    /\ Len(out.frames) = 1
    /\ out.frames[1].pc = "loop"
    /\ Len(out.frames[1].tried) >= 2
    /\ \E i \in 1 .. Len(out.thread.root_moves) :
           /\ out.thread.root_moves[i].pv[1] = out.frames[1].mv
           /\ out.thread.root_moves[i].score = -SCORE_INF
           /\ Len(out.thread.root_moves[i].pv) >= 2

\* a call of search runs to its end
NodeEnds == out.stage = "search" /\ out'.ended # out.ended

\* move i of the moves tried raised alpha: its score is above the alpha of
\* the call and above the scores before it
raised_alpha(e, i) ==
    /\ e.tried[i].score > e.alpha0
    /\ \A j \in 1 .. (i - 1) : e.tried[i].score > e.tried[j].score

NodeEndValues ==
    LET e == out'.ended[1]
        n == Len(e.tried)
        raisers == {i \in 1 .. n : raised_alpha(e, i)}
    IN  /\ n > 0
        /\ e.tt_flag = "UpperBound" <=> \A i \in 1 .. n : e.tried[i].score <= e.alpha0
        /\ e.tt_flag = "LowerBound" <=> e.tried[n].score >= e.beta
        /\ e.tt_flag = "Exact" <=> /\ \E i \in 1 .. n : e.tried[i].score > e.alpha0
                                   /\ \A i \in 1 .. n : e.tried[i].score < e.beta
        /\ e.best_move = None <=> e.tt_flag = "UpperBound"
        /\ e.tt_flag # "UpperBound" =>
               \E i \in raisers : /\ \A j \in raisers : j <= i
                                  /\ e.best_move = e.tried[i].mv
        /\ \E i \in 1 .. n : /\ out'.ret = e.tried[i].score
                             /\ \A j \in 1 .. n : e.tried[j].score <= e.tried[i].score

\* C29: at the end of a node the flag is UpperBound iff no score was above
\* the alpha the call was made with, LowerBound iff the loop ended on a
\* score >= beta, Exact iff a move raised alpha and none reached beta; the
\* best move is None exactly with UpperBound and otherwise the last move that
\* raised alpha; the value returned is the greatest score of the moves tried
C29_NodeEndFlag == [][NodeEnds => NodeEndValues]_vars

\* a node has ended Exact after a move that raised alpha and a later move
\* that did not
C29_Witness ==
    /\ out.stage = "search"
    /\ out.ended # <<>>
    /\ out.ended[1].tt_flag = "Exact"
    /\ Len(out.ended[1].tried) >= 2
    /\ out.ended[1].best_move # out.ended[1].tried[Len(out.ended[1].tried)].mv

\* C30: the reduced search of the LMR branch runs at depth
\* max(1, min(new_depth - 1, new_depth - R)) with new_depth = depth - 1, so
\* at depth 1 or more
C30_ReducedDepth ==
    out.stage = "search" =>
        \A i \in 1 .. (Len(out.frames) - 1) :
            (out.frames[i].pc = "wait" /\ out.frames[i].call = "lmr") =>
                LET f == out.frames[i]
                    new_depth == f.depth - 1
                    R == lmr_reduction(f.depth - 1, min(f.move_count, LMR_TABLE_MOVES) - 1)
                IN  /\ out.frames[i + 1].depth = max(1, min(new_depth - 1, new_depth - R))
                    /\ out.frames[i + 1].depth >= 1

(***************************************************************************)
(* search.rs: the entry of search on a position the table holds            *)
(***************************************************************************)
MaxEntryDepth == 6

NodeTypes == {"Root", "Pv", "NonPv"}

Windows == {[alpha |-> 50, beta |-> 90], [alpha |-> 50, beta |-> 51],
            [alpha |-> -300, beta |-> -299]}

EntryScores == {40, 50, 70, 90, 100}

\* what the table holds for the position: nothing, or an entry
StoredEntries ==
    {<<>>} \cup {<<[score |-> score, depth |-> depth, flag |-> flag]>> :
                    score \in EntryScores, depth \in {MaxEntryDepth - 3, MaxEntryDepth - 1,
                                                      MaxEntryDepth},
                    flag \in {"UpperBound", "LowerBound", "Exact"}}

InitTtCut ==
    /\ pos \in {WallBoard(2), WallBoard(3)}
    /\ \E nt \in NodeTypes : \E depth \in {1, MaxEntryDepth - 1} :
       \E w \in Windows : \E stored \in StoredEntries :
           inp = [nt |-> nt, depth |-> depth, alpha |-> w.alpha, beta |-> w.beta,
                  stored |-> stored]
    /\ out = Idle

\* a call of search::<NT> on pos in the first iteration, made after the
\* entry was stored at the ply of the call
node_ply(nt) == IF nt = "Root" THEN 0 ELSE 1

entered(s, nt) ==
    search_enter(
        [s EXCEPT !.frames = <<Frame(nt, pos, inp.depth, node_ply(nt), inp.alpha, inp.beta,
                                      <<>>)>>,
                  !.tt = IF inp.stored = <<>> THEN @
                         ELSE tt_store(@, key(pos), inp.stored[1].score, None,
                                       inp.stored[1].depth, node_ply(nt),
                                       inp.stored[1].flag)],
        FALSE)

EnterNode ==
    /\ out.stage = "idle"
    /\ out' = entered(start_search(pos, <<>>, inp.depth), inp.nt)
    /\ UNCHANGED <<pos, inp>>

NextTtCut == EnterNode

SpecTtCut == InitTtCut /\ [][NextTtCut]_vars

\* the call has returned the score of the entry without a turn of its move
\* loop; the call has gone on to its move loop
returned_stored_score ==
    /\ out.frames = <<>>
    /\ inp.stored # <<>>
    /\ out.ret = inp.stored[1].score

cut_allowed ==
    /\ inp.nt = "NonPv"
    /\ inp.stored # <<>>
    /\ inp.stored[1].depth >= inp.depth
    /\ \/ inp.stored[1].flag = "UpperBound" /\ inp.stored[1].score <= inp.alpha
       \/ inp.stored[1].flag = "LowerBound" /\ inp.stored[1].score >= inp.beta
       \/ inp.stored[1].flag = "Exact"

\* C31: search returns the stored score without trying a move iff the node
\* is NonPv, the entry's depth is at least the depth asked for and the
\* bound allows it (UpperBound with score <= alpha, LowerBound with
\* score >= beta, Exact); Pv and Root nodes never return on a hit
C31_TtCutoff ==
    out.stage # "idle" =>
        /\ returned_stored_score <=> cut_allowed
        /\ inp.nt # "NonPv" => out.frames # <<>> /\ out.frames[1].pc = "loop"

\* the entry (100, depth 5, LowerBound) has made a NonPv call of depth 5
\* with alpha 50 and beta 90 return 100
C31_Witness ==
    /\ out.stage # "idle"
    /\ inp.nt = "NonPv" /\ inp.depth = 5 /\ inp.alpha = 50 /\ inp.beta = 90
    /\ inp.stored = <<[score |-> 100, depth |-> 5, flag |-> "LowerBound"]>>
    /\ out.frames = <<>>
    /\ out.ret = 100

(***************************************************************************)
(* movepick.rs: the order of the moves of the Moves stage                  *)
(***************************************************************************)
\* the score the claim gives a move of the picker's position
ordering_score(mv) ==
    history_score(inp.history, pos, mv, inp.prev_move) + (IF is_spread(mv) THEN 0 ELSE 100)

\* the moves yielded so far by the Moves stage: those yielded that are
\* neither the TT move nor a killer
moves_stage_yield ==
    SelectSeq(yielded(out.returned),
              LAMBDA mv : mv # inp.tt_move /\ ~killer_contains(inp.killers, mv))

\* two buffers hold the same moves, each as many times
same_multiset(a, b) ==
    /\ Len(a) = Len(b)
    /\ \A k \in 1 .. Len(a) :
           Cardinality({i \in 1 .. Len(a) : a[i] = a[k]})
               = Cardinality({i \in 1 .. Len(b) : b[i] = a[k]})

MovesStageOrder ==
    (out.stage = "picking" /\ out.mp.stage \in {"Moves", "End"}) =>
        LET mp == out.mp
            got == moves_stage_yield
        IN  /\ Len(mp.scores) = Len(mp.moves)
            /\ \A i \in 1 .. Len(mp.moves) : mp.scores[i] = ordering_score(mp.moves[i])
            /\ \A i, j \in 1 .. Len(got) :
                   i < j => ordering_score(got[i]) >= ordering_score(got[j])
            /\ \A i \in 1 .. mp.idx : \A j \in (i + 1) .. Len(mp.moves) :
                   mp.scores[i] >= mp.scores[j]
            /\ same_multiset(mp.moves, generated_buffer(pos))

\* a turn of the Moves stage leaves in the buffer the moves it held, each as
\* many times as before
BufferKept ==
    (out.stage = "picking" /\ out.mp.stage = "Moves") =>
        same_multiset(out'.mp.moves, out.mp.moves)

\* C32: in the Moves stage each generated move has the score
\* history.score(pos, mv, prev_move), plus 100 for a placement; the moves
\* the stage yields come in non-increasing score order, each call having
\* put a maximum of the moves not yet picked at the front of them; the
\* swaps keep the multiset of the moves of the buffer
C32_MovesStageOrder == []MovesStageOrder /\ [][BufferKept]_vars

\* the Moves stage has yielded a spread scored above the placements, then
\* placements, then a spread scored 0
C32_Witness ==
    /\ out.stage = "picking"
    /\ out.mp.stage = "End"
    /\ LET got == moves_stage_yield
       IN  /\ Len(got) >= 3
           /\ is_spread(got[1]) /\ ordering_score(got[1]) > 100
           /\ \E i \in 2 .. (Len(got) - 1) : ~is_spread(got[i])
           /\ is_spread(got[Len(got)]) /\ ordering_score(got[Len(got)]) = 0

(***************************************************************************)
(* search.rs, thread.rs: is_drawn_by_repetition on short key histories     *)
(***************************************************************************)
MaxKeyHistory == 4

MaxRepetitionPly == 2

RepetitionKeys == {key(startpos), key(WallBoard(1)), key(WallBoard(2))}

RECURSIVE key_lists(_)
key_lists(n) ==
    IF n = 0 THEN {<<>>}
    ELSE LET shorter == key_lists(n - 1)
         IN  shorter \cup {Append(h, k) : h \in {g \in shorter : Len(g) = n - 1},
                                          k \in RepetitionKeys}

InitRepetition ==
    /\ pos = startpos
    /\ \E key_history \in key_lists(MaxKeyHistory) : \E curr \in RepetitionKeys :
       \E ply \in 0 .. MaxRepetitionPly :
           inp = [key_history |-> key_history, curr |-> curr, ply |-> ply]
    /\ out = Idle

TestRepetition ==
    /\ out.stage = "idle"
    /\ out' = [stage |-> "tested",
               drawn |-> is_drawn_by_repetition(inp.key_history, inp.curr, inp.ply)]
    /\ UNCHANGED <<pos, inp>>

NextRepetition == TestRepetition

SpecRepetition == InitRepetition /\ [][NextRepetition]_vars

\* C33: is_drawn_by_repetition(curr, ply) is true for ply >= 1 iff curr
\* occurs at least once in key_history, and for ply = 0 iff it occurs at
\* least twice
C33_RepetitionByPly ==
    out.stage = "tested" =>
        (out.drawn <=> occurrences(inp.key_history, inp.curr)
                           >= (IF inp.ply >= 1 THEN 1 ELSE 2))

\* one occurrence is no draw at ply 0
C33_Witness ==
    /\ out.stage = "tested"
    /\ inp.ply = 0
    /\ occurrences(inp.key_history, inp.curr) = 1
    /\ Len(inp.key_history) = MaxKeyHistory
    /\ ~out.drawn

(***************************************************************************)
(* search.rs: the key history during and after a search that starts from   *)
(* a game with a history                                                   *)
(***************************************************************************)
MaxHistoryDepth == 3

GameHistories == {<<>>, <<key(startpos), key(WallBoard(1))>>}

InitSearchFrom ==
    /\ pos \in {WallBoard(2), WallBoard(3)}
    /\ \E key_history \in GameHistories : \E max_depth \in 1 .. MaxHistoryDepth :
           inp = [key_history |-> key_history, max_depth |-> max_depth]
    /\ out = Idle

SpecSearchFrom == InitSearchFrom /\ [][NextSearch]_vars

\* the keys pushed by the calls that wait for the call they have made, the
\* root's first
pushed_keys(frames) ==
    LET waiting == SelectSeq(frames, LAMBDA f : f.pc = "wait")
    IN  [i \in 1 .. Len(waiting) |-> key(waiting[i].pos)]

\* C34: the key history is that given to start_search followed by the key
\* pushed by each call that is waiting for the search of a child: a call of
\* search, ended, cut off or stopped, returns with the history it was
\* entered with, and after run_search the history is the one passed in
C34_KeyHistoryBalanced ==
    out.stage \in {"search", "iteration_end", "final", "done"} =>
        /\ out.thread.key_history = inp.key_history \o pushed_keys(out.frames)
        /\ out.stage # "search" => out.thread.key_history = inp.key_history

\* the search of depth 2 or more of a game with a history has been
\* interrupted by a hard stop and the root call has returned
C34_Witness ==
    /\ out.stage = "iteration_end"
    /\ out.stopped
    /\ out.thread.root_depth >= 2
    /\ inp.key_history # <<>>
    /\ out.thread.key_history = inp.key_history

(***************************************************************************)
(* search.rs: the first iteration and the best root move                   *)
(***************************************************************************)
\* the root moves have just been sorted: before the final report, after it,
\* and at the start of a later iteration
after_sort ==
    \/ out.stage \in {"final", "done"}
    \/ /\ out.stage = "search"
       /\ out.thread.root_depth >= 2
       /\ Len(out.frames) = 1
       /\ out.frames[1].pc = "entry"

\* C35: no stop is seen while root_depth = 1; after the sort that follows an
\* iteration, ended or interrupted, the first root move has a score other
\* than -SCORE_INF, the assertion of report holds and bestmove names that
\* move
C35_BestRootMoveScored ==
    /\ out.stage # "panic"
    /\ (out.stage = "search" /\ out.thread.root_depth = 1) => ~out.stopped
    /\ out.stage = "iteration_end" =>
           \E i \in 1 .. Len(out.thread.root_moves) :
               out.thread.root_moves[i].score # -SCORE_INF
    /\ after_sort => out.thread.root_moves[1].score # -SCORE_INF
    /\ out.stage = "done" =>
           /\ out.lines[Len(out.lines)].line = "bestmove"
           /\ out.lines[Len(out.lines)].mv = out.thread.root_moves[1].pv[1]
           /\ is_legal(pos, out.lines[Len(out.lines)].mv)

\* a search stopped in its second or a later iteration has named its best
\* move while another root move has the score -SCORE_INF
C35_Witness ==
    /\ out.stage = "done"
    /\ out.stopped
    /\ out.thread.root_depth >= 2
    /\ out.thread.root_moves[1].score # -SCORE_INF
    /\ \E i \in 2 .. Len(out.thread.root_moves) :
           out.thread.root_moves[i].score = -SCORE_INF

(***************************************************************************)
(* board.rs: what apply_move leaves alone                                  *)
(***************************************************************************)
\* the stack of a square and the sets the square is in are the same in two
\* positions
square_kept(p, np, sq) ==
    /\ np.stacks.heights[sq] = p.stacks.heights[sq]
    /\ np.stacks.players[sq] = p.stacks.players[sq]
    /\ np.stacks.tops[sq] = p.stacks.tops[sq]
    /\ \A q \in Players : (sq \in player_bb(np, q)) <=> (sq \in player_bb(p, q))
    /\ \A pt \in PieceTypes : (sq \in piece_bb(np, pt)) <=> (sq \in piece_bb(p, pt))

\* the origin of a spread and the popcount(pattern) squares after it
spread_squares(mv) ==
    {mv_sq(mv) + k * offset(mv_dir(mv)) : k \in 0 .. count_ones(mv_pattern(mv))}

\* the hand counters that differ between two positions
hands_changed(p, np) ==
    {<<"flats", q>> : q \in {r \in Players : np.flats_in_hand[r] # p.flats_in_hand[r]}}
        \cup {<<"caps", q>> : q \in {r \in Players : np.caps_in_hand[r] # p.caps_in_hand[r]}}

hands_total(p) ==
    p.flats_in_hand[P1] + p.flats_in_hand[P2] + p.caps_in_hand[P1] + p.caps_in_hand[P2]

MoveFrame(p, mv, np) ==
    IF is_spread(mv)
    THEN /\ \A sq \in Squares \ spread_squares(mv) : square_kept(p, np, sq)
         /\ hands_changed(p, np) = {}
         /\ on_board(np, P1) = on_board(p, P1)
         /\ on_board(np, P2) = on_board(p, P2)
    ELSE /\ \A sq \in Squares \ {mv_sq(mv)} : square_kept(p, np, sq)
         /\ Cardinality(hands_changed(p, np)) = 1
         /\ hands_total(np) = hands_total(p) - 1
         /\ on_board(np, P1) + on_board(np, P2) = on_board(p, P1) + on_board(p, P2) + 1

\* C36: a placement changes only the stack and the set membership of its
\* square and one hand counter (besides stm, ply and keys); a spread changes
\* only its origin and the popcount(pattern) squares after it in its
\* direction, and leaves the hand counters and the number of pieces on the
\* board as they were
C36_ApplyMoveFrame ==
    \A mv \in LegalMoves(pos) :
        LET frame(np) == MoveFrame(pos, mv, np)
        IN  frame(apply_move(pos, mv))

\* a spread over two squares is legal while a square it does not walk
\* carries a stack, and so is a placement
C36_Witness ==
    /\ \E mv \in LegalMoves(pos) :
           /\ is_spread(mv)
           /\ count_ones(mv_pattern(mv)) >= 2
           /\ \E sq \in Squares \ spread_squares(mv) : height(pos.stacks, sq) >= 2
    /\ \E mv \in LegalMoves(pos) : ~is_spread(mv) /\ mv_pt(mv) = Capstone

(***************************************************************************)
(* board.rs: the side to move, the ply and the side-to-move key            *)
(***************************************************************************)
\* the side-to-move key of a position whose side to move is stm: nothing
\* for P1, the P2 key for P2
stm_key(stm) == IF stm = P1 THEN {} ELSE {p2_key}

Parity(p) ==
    /\ (p.stm = P1) <=> (p.ply % 2 = 0)
    /\ p.player_key = stm_key(p.stm)

TurnPassed(p, np) ==
    /\ np.stm = flip(p.stm)
    /\ np.stm # p.stm
    /\ np.ply = p.ply + 1
    /\ np.player_key = Toggle(p.player_key, p2_key)
    /\ Parity(np)

\* C37: in every position reached from startpos stm is P1 iff ply is even
\* and the side-to-move key is 0 for P1 and the P2 key for P2; apply_move
\* flips stm, adds 1 to ply and toggles the side-to-move key
C37_StmParity ==
    /\ Parity(pos)
    /\ \A mv \in LegalMoves(pos) :
           LET passed(np) == TurnPassed(pos, np)
           IN  passed(apply_move(pos, mv))

\* P2 is to move after three plies or more and has a spread
C37_Witness ==
    /\ pos.stm = P2
    /\ pos.ply >= 3
    /\ pos.player_key = {p2_key}
    /\ \E mv \in LegalMoves(pos) : is_spread(mv)

(***************************************************************************)
(* road.rs: the frontiers of has_road_avx2 from turn to turn               *)
(***************************************************************************)
\* the number of files, and of ranks, of the bands the sets are drawn from
FrontierBand == 2

\* two chains that wind from the left and from the right edge and do not
\* meet, and a chain that winds from the lower to the upper edge
WindingSets ==
    {{0, 1, 2, 3, 4, 10, 16, 15, 14, 13, 35, 34, 33, 32, 31, 25},
     {0, 1, 2, 3, 4, 10, 16, 15, 14, 13, 19, 25, 31},
     {5, 11, 10, 9, 8, 14, 20, 21, 22, 28, 34},
     Squares}

RoadSets ==
    SUBSET {sq \in Squares : file(sq) < FrontierBand}
        \cup SUBSET {sq \in Squares : rank(sq) < FrontierBand}
        \cup WindingSets

InitFrontier ==
    /\ pos = startpos
    /\ inp \in RoadSets
    /\ out = Idle

\* has_road and has_road_avx2 up to the loop; turns counts the turns of the
\* loop
FrontierFirst ==
    /\ out.stage = "idle"
    /\ LET first(seeds, r) ==
               [stage |-> r.stage, turns |-> 0,
                masks |-> IF r.stage = "loop" THEN r.masks ELSE seeds,
                ret   |-> IF r.stage = "done" THEN r.ret ELSE FALSE]
           seeded(s) ==
               first(s, road_first(inp, [right |-> s.right, left |-> s.left,
                                         down |-> s.down, up |-> s.up]))
       IN  out' = seeded(road_seeds(inp))
    /\ UNCHANGED <<pos, inp>>

FrontierStep ==
    /\ out.stage = "loop"
    /\ LET turn(r) ==
               [stage |-> r.stage, turns |-> out.turns + 1,
                masks |-> IF r.stage = "loop" THEN r.masks ELSE out.masks,
                ret   |-> IF r.stage = "done" THEN r.ret ELSE FALSE]
       IN  out' = turn(road_step(inp, out.masks))
    /\ UNCHANGED <<pos, inp>>

NextFrontier == FrontierFirst \/ FrontierStep

SpecFrontier == InitFrontier /\ [][NextFrontier]_vars

\* the frontier of a lane after one more dilation has every square it had,
\* and the comparison of the two as integers tells whether it has more
FrontiersGrow ==
    out.stage = "loop" =>
        LET next == calc_next_masks(inp, out.masks)
        IN  \A l \in LaneNames :
                /\ out.masks[l] \subseteq next[l]
                /\ gt_i64(next[l], out.masks[l]) <=> next[l] # out.masks[l]

\* the first dilation loses only squares that have no neighbour in the set
FirstStepLoss ==
    (out.stage = "loop" /\ out.turns = 0) =>
        \A l \in LaneNames : \A s \in road_seeds(inp)[l] \ out.masks[l] :
            ~\E t \in inp : adjacent(s, t)

grew(l) == calc_next_masks(inp, out.masks)[l] # out.masks[l]

\* a turn that finds no road goes on iff both frontiers of an axis have grown
StopWhenStalled ==
    (out.stage = "loop" /\ ~(out'.stage = "done" /\ out'.ret)) =>
        (out'.stage = "loop" <=> \/ grew("up") /\ grew("down")
                                 \/ grew("left") /\ grew("right"))

\* C38: from the second dilation on each frontier of has_road_avx2 contains
\* its previous value (the first loses only seeds without a road neighbour),
\* so next > masks holds exactly when the frontier gained a square; the loop
\* ends within 36 turns; it returns false once each axis has a frontier that
\* stopped growing, and that never misses a road
C38_FrontierMonotone ==
    /\ [](FrontiersGrow /\ FirstStepLoss)
    /\ [](out.stage # "idle" => out.turns <= SquareCount)
    /\ [](out.stage = "done" => out.ret = joins_edges(inp))
    /\ [][StopWhenStalled]_vars

\* after four turns or more the frontiers from the left and from the right
\* have stopped growing without meeting, and has_road_avx2 has returned false
C38_Witness ==
    /\ out.stage = "done"
    /\ ~out.ret
    /\ out.turns >= 4
    /\ out.masks["left"] # {} /\ out.masks["right"] # {}

(***************************************************************************)
(* board.rs: the owner bitmaps of the stacks                               *)
(***************************************************************************)
\* Stacks::MAX_HEIGHT; keys.rs has an owner key for the heights below it
MAX_HEIGHT == 61

\* the longest run of owners of one square in a TPS text
MaxTallStack == 63

\* the plies played on a parsed board
MaxStackPlies == 2

StackTexts ==
    {<<"1">>, <<"2", "1">>, <<"1", "2", "2">>,
     <<"2", "1", "1", "2", "1", "2", "1">>,
     <<"2", "2", "1", "2", "2", "1", "2", "C">>}

NeighbourTexts == {<<"x">>, <<"1", "2">>}

\* rank 1 holds a stack on a1 and a stack or nothing on b1
StackBoards ==
    {S1EmptyRanks \o stack \o <<",">> \o nb \o <<",", "x", "4", " ", stm, " ", "5">> :
         stack \in StackTexts, nb \in NeighbourTexts, stm \in {"1", "2"}}

tall_text(n, owners) == [i \in 1 .. n |-> owners[((i - 1) % Len(owners)) + 1]]

TallTexts ==
    {tall_text(n, owners) : n \in 0 .. MaxTallStack,
                            owners \in {<<"1">>, <<"2">>, <<"1", "2">>}}

InitStacks ==
    /\ pos = startpos
    /\ inp \in {[tall |-> FALSE, text |-> t] : t \in StackBoards}
                 \cup {[tall |-> TRUE, text |-> t] : t \in TallTexts}
    /\ out = Idle

\* Position::from_str of a board
ParseBoard ==
    /\ out.stage = "idle"
    /\ ~inp.tall
    /\ LET parsed(r) ==
               /\ r.ok
               /\ pos' = r.pos
               /\ out' = [stage |-> "board", plies |-> 0]
       IN  parsed(from_str(inp.text))
    /\ UNCHANGED inp

\* the squares of rank 1 and of file a
StackSquares == {sq \in Squares : rank(sq) = 0 \/ file(sq) = 0}

\* a spread along rank 1 or file a of the parsed board
PlayStack ==
    /\ out.stage = "board"
    /\ out.plies < MaxStackPlies
    /\ \E sq \in StackSquares : \E dir \in Directions : \E pat \in Patterns :
          LET played(mv) ==
                  /\ is_legal(pos, mv)
                  /\ walked(pos, mv) \subseteq StackSquares
                  /\ pos' = apply_move(pos, mv)
          IN  played(spread(sq, dir, pat))
    /\ out' = [out EXCEPT !.plies = @ + 1]
    /\ UNCHANGED inp

\* Stacks::push on one square, the bitmap held as the set of its set bits:
\* the owner key of a height from MAX_HEIGHT on does not exist
tall_push(s, player) ==
    IF s.height >= MAX_HEIGHT THEN [s EXCEPT !.stage = "panic"]
    ELSE [s EXCEPT !.bits = IF player = P2 THEN @ \cup {s.height} ELSE @,
                   !.height = @ + 1,
                   !.idx = @ + 1]

\* one turn of the loop of from_tps_parts that pushes the owners of a square
PushTall ==
    /\ inp.tall
    /\ out.stage \in {"idle", "pushing"}
    /\ LET s == IF out.stage = "idle"
                THEN [stage |-> "pushing", idx |-> 0, bits |-> {}, height |-> 0]
                ELSE out
       IN  out' = IF s.idx >= Len(inp.text) THEN [s EXCEPT !.stage = "pushed"]
                  ELSE tall_push(s, IF inp.text[s.idx + 1] = "1" THEN P1 ELSE P2)
    /\ UNCHANGED <<pos, inp>>

NextStacks == ParseBoard \/ PlayStack \/ PushTall

SpecStacks == InitStacks /\ [][NextStacks]_vars

\* the stack of a square written as from_tps_parts would push it
RECURSIVE rebuilt_from(_, _, _)
rebuilt_from(st, acc, todo) ==
    IF todo = {} THEN acc
    ELSE LET sq == CHOOSE s \in todo : \A t \in todo : s <= t
             owners == stack_iter(st, sq)
             acc1 == push_owners(acc, sq, owners, st.tops[sq], 1)
         IN  IF evaluated(acc1) THEN rebuilt_from(st, acc1, todo \ {sq}) ELSE acc1

rebuilt(st) == rebuilt_from(st, StacksDefault, {sq \in Squares : st.heights[sq] > 0})

\* every piece is in a hand or in a stack, and a capstone is on top
PiecesKept(p) ==
    /\ sum_seq([i \in 1 .. SquareCount |-> p.stacks.heights[i - 1]]) + hands_total(p)
           = 2 * (INITIAL_FLATS + INITIAL_CAPS)
    /\ \A q \in Players :
           Cardinality(p.pieces[Capstone] \cap p.players[q]) + p.caps_in_hand[q]
               = INITIAL_CAPS

StackClean(st, sq) ==
    /\ st.heights[sq] <= MAX_HEIGHT
    /\ st.players[sq] < Pow2(st.heights[sq])
    /\ (st.tops[sq] = None) <=> (st.heights[sq] = 0)
    /\ st.tops[sq] # None => top_player(st, sq) \in Players

\* (players >> (height - 1)) as u8 of a bitmap held as a set of bits
tall_top_raw(s) == {b - (s.height - 1) : b \in {c \in s.bits : c >= s.height - 1}}
                       \cap 0 .. 7

TallClean(s) ==
    /\ s.height <= MAX_HEIGHT
    /\ s.bits \subseteq 0 .. (s.height - 1)
    /\ s.height > 0 => tall_top_raw(s) \subseteq {0}
    /\ s.stage = "pushed" => s.height = Len(inp.text)
    /\ s.stage = "panic" => Len(inp.text) > MAX_HEIGHT

CorrectionPositions ==
    <<from_str(S1EmptyRanks \o <<"1", ",", "x", "5", " ", "1", " ", "5">>).pos,
      from_str(S1EmptyRanks \o <<"x", ",", "1", ",", "x", "4", " ", "1", " ", "5">>).pos>>

\* a score whose difference from an evaluation of 0 is clamped at every depth
ClampedScore == 4096

UpdateDepths == {1, 4}

\* the scores the search hands to CorrectionHistory::update when the
\* evaluation is 0: at depth 1 they give the bonuses around 0, around the
\* largest bonus and around its negative
CorrectionScores ==
    {8 * (centre + d) : centre \in {-CORRECTION_MAX_BONUS, 0, CORRECTION_MAX_BONUS},
                        d \in (-MaxBonusOffset) .. MaxBonusOffset}

\* a run updates an entry of the history and one of the continuation
\* history, or the correction entries of one position with all the scores,
\* or those of two positions with the clamped score of one sign
TableRuns ==
    {[kind |-> "history", sign |-> 1], [kind |-> "alone", sign |-> 1],
     [kind |-> "both", sign |-> 1], [kind |-> "both", sign |-> -1]}

run_positions(run) == IF run.kind = "both" THEN {1, 2} ELSE {1}

run_scores(run) ==
    IF run.kind = "both" THEN {run.sign * ClampedScore} ELSE CorrectionScores

InitTables ==
    /\ pos = startpos
    /\ inp \in TableRuns
    /\ out = [stage |-> "tables", history |-> HistoryNew,
              corrhist |-> CorrectionHistoryNew, updates |-> 0]

HistoryMove == placement(Flat, 1)

HistoryPrev == placement(Flat, 0)

\* History::update for a move played after another
UpdateHistory ==
    /\ inp.kind = "history"
    /\ \E bonus \in Bonuses("history") :
          out' = [out EXCEPT
                     !.history = history_update(@, CorrectionPositions[1], HistoryMove,
                                                HistoryPrev, bonus),
                     !.updates = 1]
    /\ UNCHANGED <<pos, inp>>

\* CorrectionHistory::update
UpdateCorrection ==
    /\ inp.kind # "history"
    /\ \E i \in run_positions(inp) : \E depth \in UpdateDepths :
       \E search_score \in run_scores(inp) :
          out' = [out EXCEPT
                     !.corrhist = corrhist_update(@, CorrectionPositions[i], depth,
                                                  search_score, 0),
                     !.updates = 1]
    /\ UNCHANGED <<pos, inp>>

NextTables == UpdateHistory \/ UpdateCorrection

SpecTables == InitTables /\ [][NextTables]_vars

I32_MAX == 2147483647

\* the update of an entry in 32 bits: the product and the new value are
\* within the limits, and the conversion to 16 bits gives the new value
update_fits(value, bonus, limit) ==
    LET product == value * abs(bonus)
        new_value == value + bonus - div_trunc(product, limit)
    IN  /\ abs(product) <= I32_MAX
        /\ abs(new_value) <= limit
        /\ as_i16(new_value) = new_value

table_values(table) == {table[e] : e \in DOMAIN table}

HistoryFits ==
    LET tables == out.history[CorrectionPositions[1].stm]
    IN  \A value \in table_values(tables.hist) \cup table_values(tables.conthist) :
            /\ abs(value) <= HISTORY_LIMIT
            /\ \A bonus \in Bonuses("history") :
                  LET fits(clamped) ==
                          /\ abs(clamped) <= HISTORY_LIMIT \div 4
                          /\ update_fits(value, clamped, HISTORY_LIMIT)
                          /\ history_entry_update(value, clamped)
                                 = value + clamped
                                       - div_trunc(value * abs(clamped), HISTORY_LIMIT)
                  IN  fits(clamp(bonus, -HISTORY_MAX_BONUS, HISTORY_MAX_BONUS))

CorrectionFits ==
    \A value \in table_values(out.corrhist) :
        /\ abs(value) <= CORRECTION_LIMIT
        /\ \A depth \in UpdateDepths : \A search_score \in run_scores(inp) :
              LET fits(clamped) ==
                      /\ abs(clamped) <= CORRECTION_LIMIT \div 4
                      /\ update_fits(value, clamped, CORRECTION_LIMIT)
                      /\ correction_entry_update(value, clamped)
                             = value + clamped
                                   - div_trunc(value * abs(clamped), CORRECTION_LIMIT)
              IN  fits(clamp(div_trunc(search_score * depth, 8),
                             -CORRECTION_MAX_BONUS, CORRECTION_MAX_BONUS))

CorrectionBounded ==
    \A i \in 1 .. Len(CorrectionPositions) :
        abs(correction(out.corrhist, CorrectionPositions[i]))
            <= (5 * CORRECTION_LIMIT) \div 16

\* C40: with the bonuses clamped to a quarter of LIMIT, every entry of the
\* history (LIMIT 16384) and of the correction history (LIMIT 1024) stays
\* within LIMIT after any updates from 0, the 32-bit value an update
\* computes is within LIMIT and is what the conversion to 16 bits stores,
\* and the correction of a position is at most 5 * 1024 / 16 = 320 in
\* absolute value
C40_EntriesFit == HistoryFits /\ CorrectionFits /\ CorrectionBounded

\* the five entries of the first position are at LIMIT and its correction is
\* 320, while the second position has entries of its own that are not
C40_Witness ==
    /\ inp.kind = "both"
    /\ out.updates = 1
    /\ correction(out.corrhist, CorrectionPositions[1]) = 320
    /\ abs(correction(out.corrhist, CorrectionPositions[2])) < 320
    /\ \E e \in DOMAIN out.corrhist : out.corrhist[e] \notin {0, CORRECTION_LIMIT}

====
